---------------------------- MODULE Spec2Model ----------------------------
(***************************************************************************)
(* A model of the profiles.sh persona engine (src/lib/engine): repository  *)
(* scoring, radar normalisation, persona activation, experience           *)
(* estimation, star interest clusters, project cards and the               *)
(* computeFullProfile orchestrator.                                        *)
(*                                                                         *)
(* Conventions                                                             *)
(*  - A JavaScript string is a sequence of one-character strings, so that  *)
(*    includes, toLowerCase and split are computed and not assumed.        *)
(*  - A Record<string, number> is the sequence of its entries in insertion *)
(*    order (the order Object.entries returns).                            *)
(*  - Raw scores are counted in half points (the weights 2, 3, 1.5 and 1   *)
(*    become 4, 6, 3 and 2), which keeps the arithmetic exact.  Doubles    *)
(*    represent every multiple of 0.5 in the modelled range exactly.       *)
(***************************************************************************)
EXTENDS Integers, Sequences, FiniteSets, TLC

VARIABLES
    scores,            \* normalizeToRadar: the argument
    normalized,        \* normalizeToRadar: the returned record
    pcNorm,            \* normalizeToRadar: "input" | "done"
    normalizedScores,  \* determinePersonas: the argument
    personas,          \* determinePersonas: the returned array
    pcPersona,         \* determinePersonas: "input" | "done" | "again"
    repo,              \* computeDomainScores: the repository under test
    asStar,            \* computeDomainScores([repo], [])
    asOwned,           \* computeDomainScores([], [repo])
    pcScore,           \* which of the two calls have returned
    githubProfile,     \* computeFullProfile: the profile argument
    ownedRepos,        \* computeFullProfile: the owned-repository argument
    starLists,         \* computeFullProfile: the stars argument of call 1 and 2
    now,               \* the wall-clock year read by new Date()
    docs,              \* the document returned by call 1 and call 2
    pcFull,            \* per call: "ready" | "done"
    personasAgain,     \* determinePersonas: what a second call returns
    expInput,          \* estimateExperience: the arguments and the clock
    experienceLevel,   \* estimateExperience: the returned level
    pcExp,             \* estimateExperience: "input" | "done"
    clusterStars,      \* clusterStarInterests: the stars argument
    interests,         \* clusterStarInterests: the returned clusters
    pcCluster,         \* clusterStarInterests: "input" | "done"
    projRepos,         \* generateProjectCards: the ownedRepos argument
    cards,             \* generateProjectCards: the returned cards
    pcCards,           \* generateProjectCards: "input" | "done"
    mapRepo,           \* mapRepoToPersonas: the repo argument
    mapped,            \* mapRepoToPersonas: the returned domain ids
    pcMap,             \* mapRepoToPersonas: "input" | "done"
    kvRateLimit,       \* KV: ratelimit:<username> -> the stored timestamp
    clockMs,           \* Date.now() in the refresh route
    reqPc,             \* per request: "idle" | "check" | "consume" | "send" | "done"
    reqUser,           \* per request: params.username
    reqResp,           \* per request: the status of the response (0: none yet)
    reqCount,          \* per request slot: the requests it has received
    accepted,          \* the consumeRateLimit calls made, in order
    profileQueue,      \* PROFILE_QUEUE: the messages sent
    dbProfiles,        \* D1: the usernames of the profiles table
    dbPersonas,        \* D1: the rows of the personas table
    procPc,            \* processUsername: "idle" | "computed" | "profile" | "insert"
    procRows,          \* processUsername: personaRows still to insert
    procRuns,          \* the processUsername calls that have completed
    getPc,             \* GET /personas: "idle" | "profile"
    getResp,           \* GET /personas: the status of the last response
    getAfter,          \* the GET began after a processUsername call had completed
    statLabels,        \* generateStats: the statLabels argument
    statScore,         \* generateStats: normalizedScore, in half points
    stats,             \* generateStats: the returned [label, value] pairs
    pcStats,           \* generateStats: "input" | "done"
    relPersona,        \* findRelevantStars: the personaId argument
    relStars,          \* findRelevantStars: the stars argument
    relevant,          \* findRelevantStars: the returned names
    pcRel,             \* findRelevantStars: "input" | "done"
    starCache,         \* KV: github:stars:<username>:<page> -> length of the cached page (0: none)
    remoteStars,       \* GitHub: the repos the user has starred
    fetchPage,         \* fetchAllStars: page
    fetchedPages,      \* fetchAllStars: fetchedPages
    starsFetched,      \* fetchAllStars: stars.length
    pagesRead,         \* the pages read so far, from the cache or the network
    stopReason,        \* why the loop was left: "404" | "empty" | "short" | "cap"
    starsMeta,         \* KV: github:stars:<username>:meta
    pcFetch,           \* fetchAllStars: "loop" | "meta" | "done" | "thrown"
    batchSize,         \* handleQueueBatch: batch.messages.length
    msgIndex,          \* handleQueueBatch: the message the loop is at
    pcProc,            \* processUsername: "fetch" | "store" | "engine" | "d1" | "og" | "index" | "returned" | "threw" | "end"
    failures,          \* per message: the steps of processUsername that failed
    msgCalls,          \* per message: the ack() and retry() calls made on it
    settleOrder,       \* the messages in the order they were settled
    tokenInvalid,      \* let tokenInvalid
    githubToken,       \* whether env.GITHUB_TOKEN is set
    callPc,            \* per githubFetch call: "idle" | "first" | "retry"
    callAuth,          \* per call: the request in flight carries Authorization
    callRequests,      \* per call: the HTTP requests it has issued
    callsMade,         \* the githubFetch calls started
    got401,            \* a call has received 401 for a request with Authorization
    authAfter401,      \* a request with Authorization was issued after that
    r2Manifest,        \* R2: the star manifest of the username, if any
    remoteList,        \* GitHub: the starred list, newest first
    manifestRuns,      \* the fetchStarsIncremental runs made
    radarTable,        \* D1: the radar_axes rows of the username, in insertion order
    upAxes,            \* the axes each upsertRadarAxes call was given
    upPc,              \* where each upsertRadarAxes call stands
    upIdx              \* the axis each call inserts next

vars == << scores, normalized, pcNorm, normalizedScores, personas, pcPersona,
           repo, asStar, asOwned, pcScore,
           githubProfile, ownedRepos, starLists, now, docs, pcFull,
           personasAgain, expInput, experienceLevel, pcExp,
           clusterStars, interests, pcCluster, projRepos, cards, pcCards,
           mapRepo, mapped, pcMap,
           kvRateLimit, clockMs, reqPc, reqUser, reqResp, reqCount, accepted, profileQueue,
           dbProfiles, dbPersonas, procPc, procRows, procRuns, getPc, getResp, getAfter,
           statLabels, statScore, stats, pcStats,
           relPersona, relStars, relevant, pcRel,
           starCache, remoteStars, fetchPage, fetchedPages, starsFetched, pagesRead, stopReason, starsMeta, pcFetch,
           batchSize, msgIndex, pcProc, failures, msgCalls, settleOrder,
           tokenInvalid, githubToken, callPc, callAuth, callRequests, callsMade, got401, authAfter401,
           r2Manifest, remoteList, manifestRuns,
           radarTable, upAxes, upPc, upIdx >>

normVars    == << scores, normalized, pcNorm >>
personaVars == << normalizedScores, personas, personasAgain, pcPersona >>
scoreVars   == << repo, asStar, asOwned, pcScore >>
fullVars    == << githubProfile, ownedRepos, starLists, now, docs, pcFull >>
expVars     == << expInput, experienceLevel, pcExp >>
clusterVars == << clusterStars, interests, pcCluster >>
projectVars == << projRepos, cards, pcCards >>
mapVars     == << mapRepo, mapped, pcMap >>
refreshVars == << kvRateLimit, clockMs, reqPc, reqUser, reqResp, reqCount, accepted, profileQueue >>
pollVars == << dbProfiles, dbPersonas, procPc, procRows, procRuns, getPc, getResp, getAfter >>
statsVars == << statLabels, statScore, stats, pcStats >>
starsVars == << relPersona, relStars, relevant, pcRel >>
fetchVars == << starCache, remoteStars, fetchPage, fetchedPages, starsFetched, pagesRead, stopReason, starsMeta, pcFetch >>
queueVars == << batchSize, msgIndex, pcProc, failures, msgCalls, settleOrder >>
tokenVars == << tokenInvalid, githubToken, callPc, callAuth, callRequests, callsMade, got401, authAfter401 >>
manifestVars == << r2Manifest, remoteList, manifestRuns >>
radarVars == << radarTable, upAxes, upPc, upIdx >>

\* The variables of every specification but one
notNormVars    == << personaVars, scoreVars, fullVars, expVars, clusterVars, projectVars, mapVars, refreshVars, pollVars, statsVars, starsVars, fetchVars, queueVars, tokenVars, manifestVars, radarVars >>
notPersonaVars == << normVars, scoreVars, fullVars, expVars, clusterVars, projectVars, mapVars, refreshVars, pollVars, statsVars, starsVars, fetchVars, queueVars, tokenVars, manifestVars, radarVars >>
notScoreVars   == << normVars, personaVars, fullVars, expVars, clusterVars, projectVars, mapVars, refreshVars, pollVars, statsVars, starsVars, fetchVars, queueVars, tokenVars, manifestVars, radarVars >>
notFullVars    == << normVars, personaVars, scoreVars, expVars, clusterVars, projectVars, mapVars, refreshVars, pollVars, statsVars, starsVars, fetchVars, queueVars, tokenVars, manifestVars, radarVars >>
notExpVars     == << normVars, personaVars, scoreVars, fullVars, clusterVars, projectVars, mapVars, refreshVars, pollVars, statsVars, starsVars, fetchVars, queueVars, tokenVars, manifestVars, radarVars >>
notClusterVars == << normVars, personaVars, scoreVars, fullVars, expVars, projectVars, mapVars, refreshVars, pollVars, statsVars, starsVars, fetchVars, queueVars, tokenVars, manifestVars, radarVars >>
notProjectVars == << normVars, personaVars, scoreVars, fullVars, expVars, clusterVars, mapVars, refreshVars, pollVars, statsVars, starsVars, fetchVars, queueVars, tokenVars, manifestVars, radarVars >>
notMapVars     == << normVars, personaVars, scoreVars, fullVars, expVars, clusterVars, projectVars, refreshVars, pollVars, statsVars, starsVars, fetchVars, queueVars, tokenVars, manifestVars, radarVars >>
notRefreshVars == << normVars, personaVars, scoreVars, fullVars, expVars, clusterVars, projectVars, mapVars, pollVars, statsVars, starsVars, fetchVars, queueVars, tokenVars, manifestVars, radarVars >>
notPollVars == << normVars, personaVars, scoreVars, fullVars, expVars, clusterVars, projectVars, mapVars, refreshVars, statsVars, starsVars, fetchVars, queueVars, tokenVars, manifestVars, radarVars >>
notStatsVars == << normVars, personaVars, scoreVars, fullVars, expVars, clusterVars, projectVars, mapVars, refreshVars, pollVars, starsVars, fetchVars, queueVars, tokenVars, manifestVars, radarVars >>
notStarsVars == << normVars, personaVars, scoreVars, fullVars, expVars, clusterVars, projectVars, mapVars, refreshVars, pollVars, statsVars, fetchVars, queueVars, tokenVars, manifestVars, radarVars >>
notFetchVars == << normVars, personaVars, scoreVars, fullVars, expVars, clusterVars, projectVars, mapVars, refreshVars, pollVars, statsVars, starsVars, queueVars, tokenVars, manifestVars, radarVars >>
notQueueVars == << normVars, personaVars, scoreVars, fullVars, expVars, clusterVars, projectVars, mapVars, refreshVars, pollVars, statsVars, starsVars, fetchVars, tokenVars, manifestVars, radarVars >>
notTokenVars == << normVars, personaVars, scoreVars, fullVars, expVars, clusterVars, projectVars, mapVars, refreshVars, pollVars, statsVars, starsVars, fetchVars, queueVars, manifestVars, radarVars >>
notManifestVars == << normVars, personaVars, scoreVars, fullVars, expVars, clusterVars, projectVars, mapVars, refreshVars, pollVars, statsVars, starsVars, fetchVars, queueVars, tokenVars, radarVars >>
notRadarVars == << normVars, personaVars, scoreVars, fullVars, expVars, clusterVars, projectVars, mapVars, refreshVars, pollVars, statsVars, starsVars, fetchVars, queueVars, tokenVars, manifestVars >>

---------------------------------------------------------------------------
(* JavaScript strings                                                      *)

\* null, as returned by the GitHub API for a missing language or description
Null == << "null" >>

UpperChars == << "A","B","C","D","E","F","G","H","I","J","K","L","M",
                 "N","O","P","Q","R","S","T","U","V","W","X","Y","Z" >>
LowerChars == << "a","b","c","d","e","f","g","h","i","j","k","l","m",
                 "n","o","p","q","r","s","t","u","v","w","x","y","z" >>

LowerOf ==
    [c \in { UpperChars[i] : i \in 1..Len(UpperChars) } |->
        LowerChars[CHOOSE i \in 1..Len(UpperChars) : UpperChars[i] = c]]

toLowerChar(c) == IF c \in DOMAIN LowerOf THEN LowerOf[c] ELSE c

\* String.prototype.toLowerCase
toLowerCase(s) == [i \in 1..Len(s) |-> toLowerChar(s[i])]

\* String.prototype.includes
includes(s, sub) ==
    \/ sub = << >>
    \/ \E i \in 0..(Len(s) - Len(sub)) :
           /\ s[i + 1] = sub[1]
           /\ SubSeq(s, i + 1, i + Len(sub)) = sub

\* (v || "") for a nullable string
orEmpty(v) == IF v = Null THEN << >> ELSE v

\* topics.map((t) => t.toLowerCase())
lowerAll(ss) == [i \in 1..Len(ss) |-> toLowerCase(ss[i])]

---------------------------------------------------------------------------
(* The category catalog                                                    *)

DOMAIN_SIGNALS ==
  <<
    [ domain |-> "systems",
      languages |->
        << <<"C">>, <<"C","+","+">>, <<"R","u","s","t">>, <<"A","s","s","e","m","b","l","y">>,
           <<"Z","i","g">> >>,
      topics |->
        << <<"k","e","r","n","e","l">>,
           <<"s","y","s","t","e","m","s","-","p","r","o","g","r","a","m","m","i","n","g">>,
           <<"e","m","b","e","d","d","e","d">>, <<"b","a","r","e","-","m","e","t","a","l">>,
           <<"s","y","s","t","e","m","d">>,
           <<"o","p","e","r","a","t","i","n","g","-","s","y","s","t","e","m">>, <<"o","s">>,
           <<"h","y","p","e","r","v","i","s","o","r">>,
           <<"v","i","r","t","u","a","l","i","z","a","t","i","o","n">>, <<"q","e","m","u">>,
           <<"k","v","m">>, <<"p","r","o","x","m","o","x">>, <<"e","s","x","i">>, <<"z","f","s">>,
           <<"f","i","l","e","s","y","s","t","e","m">>, <<"d","a","t","a","b","a","s","e">>,
           <<"p","o","s","t","g","r","e","s","q","l">>,
           <<"p","e","r","f","o","r","m","a","n","c","e">>,
           <<"p","r","o","f","i","l","i","n","g">>, <<"e","b","p","f">>,
           <<"i","o","-","u","r","i","n","g">>,
           <<"m","e","m","o","r","y","-","m","a","n","a","g","e","m","e","n","t">>,
           <<"r","e","a","l","-","t","i","m","e">>, <<"d","r","i","v","e","r">>,
           <<"f","i","r","m","w","a","r","e">> >>,
      descriptionKeywords |->
        << <<"k","e","r","n","e","l">>, <<"s","y","s","c","a","l","l">>,
           <<"b","a","r","e"," ","m","e","t","a","l">>,
           <<"h","y","p","e","r","v","i","s","o","r">>, <<"l","o","w","-","l","e","v","e","l">>,
           <<"s","y","s","t","e","m","s">>, <<"p","e","r","f","o","r","m","a","n","c","e">>,
           <<"d","a","t","a","b","a","s","e">>, <<"p","o","s","t","g","r","e","s","q","l">>,
           <<"e","m","b","e","d","d","e","d">>, <<"f","i","r","m","w","a","r","e">> >> ],
    [ domain |-> "platform",
      languages |->
        << <<"H","C","L">>, <<"J","s","o","n","n","e","t">>, <<"S","t","a","r","l","a","r","k">>,
           <<"D","h","a","l","l">> >>,
      topics |->
        << <<"k","u","b","e","r","n","e","t","e","s">>, <<"k","8","s">>, <<"h","e","l","m">>,
           <<"t","e","r","r","a","f","o","r","m">>, <<"a","n","s","i","b","l","e">>,
           <<"p","u","l","u","m","i">>, <<"d","o","c","k","e","r">>,
           <<"c","o","n","t","a","i","n","e","r">>, <<"c","i","-","c","d">>,
           <<"g","i","t","h","u","b","-","a","c","t","i","o","n","s">>,
           <<"g","i","t","l","a","b","-","c","i">>, <<"j","e","n","k","i","n","s">>,
           <<"a","r","g","o","c","d">>, <<"g","i","t","o","p","s">>,
           <<"i","n","f","r","a","s","t","r","u","c","t","u","r","e","-","a","s","-","c","o","d","e">>,
           <<"i","a","c">>, <<"d","e","v","o","p","s">>, <<"c","d","k">>,
           <<"c","l","o","u","d","f","o","r","m","a","t","i","o","n">>,
           <<"d","e","p","l","o","y","m","e","n","t">>, <<"p","i","p","e","l","i","n","e">>,
           <<"b","u","i","l","d","p","a","c","k">>, <<"n","i","x">>, <<"n","i","x","o","s">>,
           <<"g","u","i","x">>, <<"b","u","i","l","d","r","o","o","t">> >>,
      descriptionKeywords |->
        << <<"d","e","p","l","o","y">>, <<"p","i","p","e","l","i","n","e">>,
           <<"i","n","f","r","a","s","t","r","u","c","t","u","r","e">>,
           <<"o","r","c","h","e","s","t","r","a","t">>, <<"c","i","/","c","d">>,
           <<"g","i","t","o","p","s">>, <<"p","r","o","v","i","s","i","o","n","i","n","g">>,
           <<"a","u","t","o","m","a","t","i","o","n">>,
           <<"k","u","b","e","r","n","e","t","e","s">>, <<"h","e","l","m">>,
           <<"t","e","r","r","a","f","o","r","m">> >> ],
    [ domain |-> "software",
      languages |->
        << <<"T","y","p","e","S","c","r","i","p","t">>,
           <<"J","a","v","a","S","c","r","i","p","t">>, <<"R","u","s","t">>, <<"G","o">>,
           <<"P","y","t","h","o","n">>, <<"R","u","b","y">>, <<"J","a","v","a">>,
           <<"K","o","t","l","i","n">>, <<"S","w","i","f","t">>, <<"S","c","a","l","a">>,
           <<"E","l","i","x","i","r">>, <<"H","a","s","k","e","l","l">>, <<"O","C","a","m","l">>,
           <<"F","#">>, <<"C","l","o","j","u","r","e">> >>,
      topics |->
        << <<"f","r","a","m","e","w","o","r","k">>, <<"l","i","b","r","a","r","y">>,
           <<"s","d","k">>, <<"a","p","i">>,
           <<"w","e","b","-","f","r","a","m","e","w","o","r","k">>, <<"o","r","m">>,
           <<"t","e","s","t","i","n","g">>, <<"c","o","m","p","i","l","e","r">>,
           <<"l","a","n","g","u","a","g","e">>, <<"p","a","r","s","e","r">>, <<"a","s","t">>,
           <<"w","a","s","m">>, <<"w","e","b","a","s","s","e","m","b","l","y">>,
           <<"f","u","l","l","-","s","t","a","c","k">>, <<"b","a","c","k","e","n","d">>,
           <<"f","r","o","n","t","e","n","d">>, <<"r","e","a","c","t">>, <<"v","u","e">>,
           <<"s","v","e","l","t","e">>, <<"s","o","l","i","d">>, <<"a","n","g","u","l","a","r">>,
           <<"n","e","x","t","j","s">>, <<"n","u","x","t">>, <<"a","s","t","r","o">>,
           <<"b","u","n">>, <<"d","e","n","o">>, <<"n","o","d","e">>,
           <<"r","u","n","t","i","m","e">> >>,
      descriptionKeywords |->
        << <<"f","r","a","m","e","w","o","r","k">>, <<"l","i","b","r","a","r","y">>,
           <<"c","o","m","p","i","l","e","r">>, <<"r","u","n","t","i","m","e">>,
           <<"p","r","o","g","r","a","m","m","i","n","g"," ","l","a","n","g","u","a","g","e">>,
           <<"w","e","b"," ","a","p","p">>, <<"f","u","l","l","-","s","t","a","c","k">>,
           <<"f","r","o","n","t","e","n","d">>, <<"b","a","c","k","e","n","d">>, <<"a","p","i">> >> ],
    [ domain |-> "cloud",
      languages |->
        <<>>,
      topics |->
        << <<"a","w","s">>, <<"g","c","p">>, <<"a","z","u","r","e">>,
           <<"c","l","o","u","d","f","l","a","r","e">>, <<"c","l","o","u","d">>,
           <<"s","e","r","v","e","r","l","e","s","s">>, <<"l","a","m","b","d","a">>,
           <<"e","d","g","e">>, <<"c","d","n">>,
           <<"l","o","a","d","-","b","a","l","a","n","c","e","r">>, <<"v","p","n">>,
           <<"w","i","r","e","g","u","a","r","d">>, <<"n","e","t","w","o","r","k","i","n","g">>,
           <<"m","u","l","t","i","-","c","l","o","u","d">>,
           <<"h","y","b","r","i","d","-","c","l","o","u","d">>,
           <<"c","l","o","u","d","-","n","a","t","i","v","e">>, <<"s","a","a","s">>,
           <<"p","a","a","s">>, <<"i","a","a","s">>, <<"s","3">>, <<"r","2">>,
           <<"w","o","r","k","e","r","s">> >>,
      descriptionKeywords |->
        << <<"c","l","o","u","d">>, <<"a","w","s">>, <<"s","e","r","v","e","r","l","e","s","s">>,
           <<"e","d","g","e">>, <<"c","d","n">>, <<"d","i","s","t","r","i","b","u","t","e","d">>,
           <<"m","u","l","t","i","-","c","l","o","u","d">>,
           <<"c","l","o","u","d","f","l","a","r","e">>, <<"s","c","a","l","a","b","l","e">>,
           <<"l","o","a","d"," ","b","a","l","a","n","c">>, <<"v","p","n">>,
           <<"t","u","n","n","e","l">> >> ],
    [ domain |-> "linux",
      languages |->
        << <<"S","h","e","l","l">>, <<"B","a","s","h">>, <<"N","u","s","h","e","l","l">>,
           <<"F","i","s","h">>, <<"Z","s","h">>, <<"N","i","x">> >>,
      topics |->
        << <<"l","i","n","u","x">>, <<"u","n","i","x">>, <<"s","h","e","l","l">>,
           <<"b","a","s","h">>, <<"z","s","h">>, <<"f","i","s","h">>,
           <<"n","u","s","h","e","l","l">>, <<"t","e","r","m","i","n","a","l">>, <<"c","l","i">>,
           <<"t","u","i">>, <<"d","o","t","f","i","l","e","s">>, <<"r","i","c","e">>,
           <<"r","i","c","i","n","g">>, <<"h","y","p","r","l","a","n","d">>,
           <<"w","a","y","l","a","n","d">>, <<"s","w","a","y">>, <<"i","3">>,
           <<"w","i","n","d","o","w","-","m","a","n","a","g","e","r">>, <<"w","m">>,
           <<"d","e","s","k","t","o","p","-","e","n","v","i","r","o","n","m","e","n","t">>,
           <<"g","t","k">>, <<"s","y","s","t","e","m","d">>, <<"a","r","c","h">>,
           <<"d","e","b","i","a","n">>, <<"u","b","u","n","t","u">>, <<"a","l","p","i","n","e">>,
           <<"n","i","x","o","s">>, <<"g","e","n","t","o","o">>, <<"f","r","e","e","b","s","d">> >>,
      descriptionKeywords |->
        << <<"l","i","n","u","x">>, <<"t","e","r","m","i","n","a","l">>, <<"s","h","e","l","l">>,
           <<"c","o","m","m","a","n","d","-","l","i","n","e">>, <<"c","l","i">>, <<"t","u","i">>,
           <<"d","o","t","f","i","l","e","s">>,
           <<"w","i","n","d","o","w"," ","m","a","n","a","g","e","r">>,
           <<"w","a","y","l","a","n","d">>, <<"h","y","p","r","l","a","n","d">>,
           <<"n","u","s","h","e","l","l">>, <<"s","y","s","t","e","m","d">>,
           <<"d","e","s","k","t","o","p">> >> ],
    [ domain |-> "solutions",
      languages |->
        <<>>,
      topics |->
        << <<"d","o","c","u","m","e","n","t","a","t","i","o","n">>,
           <<"t","e","c","h","n","i","c","a","l","-","w","r","i","t","i","n","g">>,
           <<"a","p","i","-","d","e","s","i","g","n">>, <<"o","p","e","n","a","p","i">>,
           <<"j","s","o","n","-","s","c","h","e","m","a">>, <<"g","r","a","p","h","q","l">>,
           <<"r","e","s","t">>, <<"g","r","p","c">>, <<"p","r","o","t","o","b","u","f">>,
           <<"a","r","c","h","i","t","e","c","t","u","r","e">>,
           <<"d","e","s","i","g","n","-","p","a","t","t","e","r","n","s">>,
           <<"m","i","c","r","o","s","e","r","v","i","c","e","s">>, <<"d","d","d">>,
           <<"e","v","e","n","t","-","d","r","i","v","e","n">>, <<"c","q","r","s">>,
           <<"c","o","n","s","u","l","t","i","n","g">> >>,
      descriptionKeywords |->
        << <<"d","o","c","u","m","e","n","t","a","t","i","o","n">>,
           <<"a","p","i"," ","d","e","s","i","g","n">>,
           <<"a","r","c","h","i","t","e","c","t","u","r","e">>, <<"p","a","t","t","e","r","n">>,
           <<"m","i","c","r","o","s","e","r","v","i","c","e">>, <<"s","c","h","e","m","a">>,
           <<"o","p","e","n","a","p","i">>,
           <<"s","p","e","c","i","f","i","c","a","t","i","o","n">>,
           <<"i","n","t","e","g","r","a","t","i","o","n">>, <<"w","o","r","k","f","l","o","w">> >> ],
    [ domain |-> "sre",
      languages |->
        <<>>,
      topics |->
        << <<"m","o","n","i","t","o","r","i","n","g">>,
           <<"o","b","s","e","r","v","a","b","i","l","i","t","y">>,
           <<"g","r","a","f","a","n","a">>, <<"p","r","o","m","e","t","h","e","u","s">>,
           <<"a","l","e","r","t","i","n","g">>, <<"i","n","c","i","d","e","n","t">>,
           <<"s","r","e">>, <<"r","e","l","i","a","b","i","l","i","t","y">>,
           <<"u","p","t","i","m","e">>,
           <<"c","h","a","o","s","-","e","n","g","i","n","e","e","r","i","n","g">>,
           <<"l","o","a","d","-","t","e","s","t","i","n","g">>,
           <<"b","e","n","c","h","m","a","r","k">>, <<"t","r","a","c","i","n","g">>,
           <<"l","o","g","g","i","n","g">>, <<"e","l","k">>, <<"d","a","t","a","d","o","g">>,
           <<"n","e","w","r","e","l","i","c">>, <<"p","a","g","e","r","d","u","t","y">>,
           <<"o","n","-","c","a","l","l">>, <<"r","u","n","b","o","o","k">>,
           <<"s","e","c","u","r","i","t","y">>,
           <<"v","u","l","n","e","r","a","b","i","l","i","t","y">>, <<"c","v","e">>,
           <<"p","e","n","e","t","r","a","t","i","o","n","-","t","e","s","t","i","n","g">>,
           <<"z","e","r","o","-","t","r","u","s","t">>,
           <<"a","u","t","h","e","n","t","i","c","a","t","i","o","n">>, <<"o","a","u","t","h">>,
           <<"s","s","o">> >>,
      descriptionKeywords |->
        << <<"m","o","n","i","t","o","r","i","n","g">>,
           <<"o","b","s","e","r","v","a","b","i","l","i","t","y">>,
           <<"r","e","l","i","a","b","i","l","i","t","y">>, <<"i","n","c","i","d","e","n","t">>,
           <<"a","l","e","r","t">>, <<"u","p","t","i","m","e">>, <<"c","h","a","o","s">>,
           <<"s","e","c","u","r","i","t","y">>,
           <<"v","u","l","n","e","r","a","b","i","l","i","t","y">>,
           <<"p","e","n","e","t","r","a","t","i","o","n">>,
           <<"z","e","r","o","-","t","r","u","s","t">>,
           <<"a","u","t","h","e","n","t","i","c","a","t","i","o","n">> >> ],
    [ domain |-> "tinkerer",
      languages |->
        <<>>,
      topics |->
        << <<"s","i","d","e","-","p","r","o","j","e","c","t">>,
           <<"e","x","p","e","r","i","m","e","n","t">>, <<"p","r","o","t","o","t","y","p","e">>,
           <<"h","a","c","k">>, <<"m","a","k","e","r">>, <<"i","o","t">>,
           <<"r","a","s","p","b","e","r","r","y","-","p","i">>, <<"a","r","d","u","i","n","o">>,
           <<"f","p","g","a">>, <<"3","d","-","p","r","i","n","t","i","n","g">>,
           <<"e","-","i","n","k">>, <<"e","i","n","k">>, <<"h","a","r","d","w","a","r","e">>,
           <<"r","o","b","o","t","i","c","s">>,
           <<"g","e","n","e","r","a","t","i","v","e","-","a","r","t">>,
           <<"c","r","e","a","t","i","v","e","-","c","o","d","i","n","g">>,
           <<"p","r","o","c","e","d","u","r","a","l">>, <<"h","o","b","b","y">>,
           <<"w","e","e","k","e","n","d","-","p","r","o","j","e","c","t">>, <<"a","i">>,
           <<"m","a","c","h","i","n","e","-","l","e","a","r","n","i","n","g">>, <<"l","l","m">>,
           <<"g","p","t">>, <<"e","m","b","e","d","d","i","n","g","s">>,
           <<"v","e","c","t","o","r","-","d","a","t","a","b","a","s","e">>,
           <<"s","e","m","a","n","t","i","c","-","s","e","a","r","c","h">>,
           <<"a","i","-","a","g","e","n","t">>, <<"a","i","-","c","o","d","i","n","g">>,
           <<"s","t","a","b","l","e","-","d","i","f","f","u","s","i","o","n">>,
           <<"i","m","a","g","e","-","g","e","n","e","r","a","t","i","o","n">> >>,
      descriptionKeywords |->
        << <<"e","x","p","e","r","i","m","e","n","t">>, <<"p","r","o","t","o","t","y","p","e">>,
           <<"t","o","y">>, <<"h","o","b","b","y">>, <<"w","e","e","k","e","n","d">>,
           <<"f","u","n">>, <<"h","a","c","k">>, <<"t","i","n","k","e","r","i","n","g">>,
           <<"a","i">>, <<"l","l","m">>, <<"e","m","b","e","d","d","i","n","g">>,
           <<"s","e","m","a","n","t","i","c">>,
           <<"m","a","c","h","i","n","e"," ","l","e","a","r","n","i","n","g">>,
           <<"a","g","e","n","t">>, <<"g","e","n","e","r","a","t","i","v","e">> >> ],
    [ domain |-> "hacker",
      languages |->
        << <<"V","i","m"," ","S","c","r","i","p","t">>, <<"L","u","a">>,
           <<"V","i","m","s","c","r","i","p","t">> >>,
      topics |->
        << <<"n","e","o","v","i","m">>, <<"v","i","m">>, <<"n","v","i","m">>,
           <<"e","d","i","t","o","r">>, <<"i","d","e">>,
           <<"t","e","r","m","i","n","a","l","-","e","m","u","l","a","t","o","r">>,
           <<"t","m","u","x">>, <<"z","e","l","l","i","j">>, <<"s","c","r","e","e","n">>,
           <<"g","h","o","s","t","t","y">>, <<"a","l","a","c","r","i","t","t","y">>,
           <<"k","i","t","t","y">>, <<"w","e","z","t","e","r","m">>, <<"h","e","l","i","x">>,
           <<"k","a","k","o","u","n","e">>, <<"e","m","a","c","s">>,
           <<"d","o","t","f","i","l","e","s">>,
           <<"c","o","m","m","a","n","d","-","l","i","n","e">>,
           <<"o","l","d","-","s","c","h","o","o","l">>, <<"r","e","t","r","o">>,
           <<"v","i","n","t","a","g","e">>, <<"b","r","o","w","s","e","r">>,
           <<"w","e","b","-","b","r","o","w","s","e","r">>, <<"r","s","s">>,
           <<"f","e","e","d","-","r","e","a","d","e","r">>, <<"b","o","o","k","m","a","r","k","s">> >>,
      descriptionKeywords |->
        << <<"n","e","o","v","i","m">>, <<"v","i","m">>, <<"e","d","i","t","o","r">>,
           <<"t","e","r","m","i","n","a","l">>, <<"b","r","o","w","s","e","r">>,
           <<"o","l","d"," ","s","c","h","o","o","l">>, <<"r","e","t","r","o">>,
           <<"h","a","c","k","e","r">>, <<"r","s","s">>, <<"f","e","e","d">>,
           <<"b","o","o","k","m","a","r","k">>, <<"k","n","o","w","l","e","d","g","e">> >> ]
  >>

---------------------------------------------------------------------------
(* Repo scoring and aggregation                                            *)

\* A variant that weighs a description keyword 1 instead of 1.5
RepoScore_descWeight1(r, signals) ==
    LET lang   == toLowerCase(orEmpty(r.language))
        topics == lowerAll(r.topics)
        desc   == toLowerCase(orEmpty(r.description))
        name   == toLowerCase(orEmpty(r.full_name))
        langScore ==
            IF \E i \in 1..Len(signals.languages) :
                   toLowerCase(signals.languages[i]) = lang
            THEN 4 ELSE 0
        topicMatches ==
            Len(SelectSeq(topics, LAMBDA t :
                \E i \in 1..Len(signals.topics) :
                    \/ includes(t, signals.topics[i])
                    \/ includes(signals.topics[i], t)))
        descMatches ==
            Len(SelectSeq(signals.descriptionKeywords, LAMBDA kw : includes(desc, kw)))
        nameMatches ==
            Len(SelectSeq(signals.descriptionKeywords, LAMBDA kw : includes(name, kw)))
    IN  langScore + topicMatches * 6 + descMatches * 2 + nameMatches * 2

\* The body of the per-domain loop of computeDomainScores: the score of one
\* repository against one domain's signals, in half points.
RepoScore(r, signals) ==
    LET lang   == toLowerCase(orEmpty(r.language))
        topics == lowerAll(r.topics)
        desc   == toLowerCase(orEmpty(r.description))
        name   == toLowerCase(orEmpty(r.full_name))
        langScore ==
            IF \E i \in 1..Len(signals.languages) :
                   toLowerCase(signals.languages[i]) = lang
            THEN 4 ELSE 0
        topicMatches ==
            Len(SelectSeq(topics, LAMBDA t :
                \E i \in 1..Len(signals.topics) :
                    \/ includes(t, signals.topics[i])
                    \/ includes(signals.topics[i], t)))
        descMatches ==
            Len(SelectSeq(signals.descriptionKeywords, LAMBDA kw : includes(desc, kw)))
        nameMatches ==
            Len(SelectSeq(signals.descriptionKeywords, LAMBDA kw : includes(name, kw)))
    IN  langScore + topicMatches * 6 + descMatches * 3 + nameMatches * 2

RECURSIVE SumRepoScores(_, _)
SumRepoScores(repos, signals) ==
    IF repos = << >> THEN 0
    ELSE RepoScore(Head(repos), signals) + SumRepoScores(Tail(repos), signals)

\* A variant of the owned loop without the name-keyword signal
OwnedRepoScore_noName(r, signals) ==
    LET lang   == toLowerCase(orEmpty(r.language))
        topics == lowerAll(r.topics)
        desc   == toLowerCase(orEmpty(r.description))
        langScore ==
            IF \E i \in 1..Len(signals.languages) :
                   toLowerCase(signals.languages[i]) = lang
            THEN 4 ELSE 0
        topicMatches ==
            Len(SelectSeq(topics, LAMBDA t :
                \E i \in 1..Len(signals.topics) :
                    \/ includes(t, signals.topics[i])
                    \/ includes(signals.topics[i], t)))
        descMatches ==
            Len(SelectSeq(signals.descriptionKeywords, LAMBDA kw : includes(desc, kw)))
    IN  langScore + topicMatches * 6 + descMatches * 3

\* The body of the per-domain loop over ownedRepos, a second copy of the
\* scoring code, before the multiplier is applied.
OwnedRepoScore(r, signals) ==
    LET lang   == toLowerCase(orEmpty(r.language))
        topics == lowerAll(r.topics)
        desc   == toLowerCase(orEmpty(r.description))
        name   == toLowerCase(orEmpty(r.full_name))
        langScore ==
            IF \E i \in 1..Len(signals.languages) :
                   toLowerCase(signals.languages[i]) = lang
            THEN 4 ELSE 0
        topicMatches ==
            Len(SelectSeq(topics, LAMBDA t :
                \E i \in 1..Len(signals.topics) :
                    \/ includes(t, signals.topics[i])
                    \/ includes(signals.topics[i], t)))
        descMatches ==
            Len(SelectSeq(signals.descriptionKeywords, LAMBDA kw : includes(desc, kw)))
        nameMatches ==
            Len(SelectSeq(signals.descriptionKeywords, LAMBDA kw : includes(name, kw)))
    IN  langScore + topicMatches * 6 + descMatches * 3 + nameMatches * 2

\* The multiplier applied to an owned repository's score
OwnedWeight(repoScore) == repoScore * 3

RECURSIVE SumOwnedScores(_, _)
SumOwnedScores(repos, signals) ==
    IF repos = << >> THEN 0
    ELSE OwnedWeight(OwnedRepoScore(Head(repos), signals))
         + SumOwnedScores(Tail(repos), signals)

computeDomainScores(stars, owned) ==
    [i \in 1..Len(DOMAIN_SIGNALS) |->
        [ domain |-> DOMAIN_SIGNALS[i].domain,
          score  |-> SumRepoScores(stars, DOMAIN_SIGNALS[i])
                     + SumOwnedScores(owned, DOMAIN_SIGNALS[i]) ]]

---------------------------------------------------------------------------
(* Radar normalisation                                                     *)

\* A variant that divides by the total instead of the maximum
RECURSIVE MaxScore_total(_)
MaxScore_total(entries) ==
    IF entries = << >> THEN 0
    ELSE Head(entries).score + MaxScore_total(Tail(entries))

\* Math.max(...Object.values(scores)), for non-negative scores
RECURSIVE MaxScore(_)
MaxScore(entries) ==
    IF entries = << >> THEN 0
    ELSE LET m == MaxScore(Tail(entries))
         IN  IF Head(entries).score > m THEN Head(entries).score ELSE m

\* A variant that scales to 0..100 without the floor of 40
RadarValue_noFloor(score, max) == (200 * score + max) \div (2 * max)

\* A variant that runs the scale downwards
RadarValue_inverted(score, max) == 100 - ((120 * score + max) \div (2 * max))

\* Math.round(40 + (score / max) * 60) for 0 < score <= max.  Math.round
\* rounds half up, so the result is floor(40 + 60*score/max + 1/2).  The
\* double computation agrees with this exact value for every score and max
\* up to 400 half points.
RadarValue(score, max) == 40 + ((120 * score + max) \div (2 * max))

normalizeToRadar(entries) ==
    LET max == MaxScore(entries)
    IN  IF max = 0 THEN entries
        ELSE [i \in 1..Len(entries) |->
                [ domain |-> entries[i].domain,
                  score  |-> IF entries[i].score > 0
                             THEN RadarValue(entries[i].score, max)
                             ELSE 0 ]]

---------------------------------------------------------------------------
(* Persona activation                                                      *)

PERSONA_THRESHOLD == 45

\* A variant that activates only above the threshold
keepActive_strict(entries) == SelectSeq(entries, LAMBDA e : e.score > PERSONA_THRESHOLD)

\* Array.prototype.filter
keepActive(entries) == SelectSeq(entries, LAMBDA e : e.score >= PERSONA_THRESHOLD)

\* A variant that places an element before the elements of equal score
RECURSIVE InsertDesc_tiesFirst(_, _)
InsertDesc_tiesFirst(e, acc) ==
    IF acc = << >> THEN << e >>
    ELSE IF Head(acc).score > e.score
         THEN << Head(acc) >> \o InsertDesc_tiesFirst(e, Tail(acc))
         ELSE << e >> \o acc

\* Array.prototype.sort((a, b) => b[1] - a[1]): a stable sort (ECMAScript
\* 2019), descending by score.  Each element is inserted after the elements
\* already placed whose score is not smaller.
RECURSIVE InsertDesc(_, _)
InsertDesc(e, acc) ==
    IF acc = << >> THEN << e >>
    ELSE IF Head(acc).score >= e.score
         THEN << Head(acc) >> \o InsertDesc(e, Tail(acc))
         ELSE << e >> \o acc

RECURSIVE SortInto(_, _)
SortInto(rest, acc) ==
    IF rest = << >> THEN acc
    ELSE SortInto(Tail(rest), InsertDesc(Head(rest), acc))

sortByScoreDesc(entries) == SortInto(entries, << >>)

\* score / 100, kept as the exact quotient num/den
confidenceOf(score) == [ num |-> score, den |-> 100 ]

\* A variant in which the filter removes the dormant entries from the
\* argument itself
argumentAfter_filtered(entries) == keepActive(entries)

\* The argument object after a call: Object.entries, filter, sort and map
\* each return a new array, so the object holds what it held
argumentAfter(entries) == entries

determinePersonas(entries) ==
    LET sorted == sortByScoreDesc(keepActive(entries))
    IN  [i \in 1..Len(sorted) |->
            [ persona_id |-> sorted[i].domain,
              confidence |-> confidenceOf(sorted[i].score),
              sort_order |-> i - 1 ]]

---------------------------------------------------------------------------
(* Experience estimation                                                   *)

\* new Date().getFullYear() - new Date(profile.created_at).getFullYear():
\* NaN when created_at does not parse as a date.  The current year is read
\* from the wall clock, passed here as `year`.
accountAgeOf(profile, year) ==
    IF profile.created_at.valid
    THEN [ nan |-> FALSE, n |-> year - profile.created_at.year ]
    ELSE [ nan |-> TRUE,  n |-> 0 ]

\* A variant that compares the age with >=
ageAbove_inclusive(age, k) == ~age.nan /\ age.n >= k

\* accountAge > k: every comparison with NaN is false
ageAbove(age, k) == ~age.nan /\ age.n > k

\* domainScore / maxScore > percent / 100, for maxScore > 0
ratioAbove(domainScore, maxScore, percent) == domainScore * 100 > percent * maxScore

\* accountAge + "+ years"
yearsLabel(age) == [ text |-> "+ years", age |-> age ]

estimateExperience(profile, domainScore, maxScore, year) ==
    LET accountAge == accountAgeOf(profile, year)
    IN  IF ratioAbove(domainScore, maxScore, 85) /\ ageAbove(accountAge, 8)
        THEN [ prefix |-> "Principal", years |-> yearsLabel(accountAge) ]
        ELSE IF ratioAbove(domainScore, maxScore, 70) /\ ageAbove(accountAge, 5)
        THEN [ prefix |-> "Staff", years |-> yearsLabel(accountAge) ]
        ELSE IF ratioAbove(domainScore, maxScore, 50) /\ ageAbove(accountAge, 3)
        THEN [ prefix |-> "Senior", years |-> yearsLabel(accountAge) ]
        ELSE IF ratioAbove(domainScore, maxScore, 30)
        THEN [ prefix |-> "", years |-> yearsLabel(accountAge) ]
        ELSE [ prefix |-> "", years |-> [ text |-> "Active", age |-> [ nan |-> FALSE, n |-> 0 ] ] ]

---------------------------------------------------------------------------
(* Persona cards                                                           *)

\* normalizedScores[id] || 0
scoreOf(entries, id) ==
    IF \E i \in 1..Len(entries) : entries[i].domain = id
    THEN entries[CHOOSE i \in 1..Len(entries) : entries[i].domain = id].score
    ELSE 0

\* The fields of a persona card that come from the active persona, the
\* experience estimate and the profile.
generatePersonaDetails(activePersonas, normalizedEntries, stars, owned, profile, maxScore, year) ==
    [k \in 1..Len(activePersonas) |->
        LET ap == activePersonas[k]
            experience ==
                estimateExperience(profile, scoreOf(normalizedEntries, ap.persona_id),
                                   maxScore, year)
        IN  [ persona_id       |-> ap.persona_id,
              experience_prefix |-> experience.prefix,
              experience_label |-> experience.years,
              years_active     |-> profile.created_at,
              confidence       |-> ap.confidence,
              sort_order       |-> ap.sort_order ]]

---------------------------------------------------------------------------
(* The category scorer and the two aggregations of the orchestrator        *)

\* The name segment of "owner/name": what follows the owner separator
nameSegment(fullName) ==
    IF \E i \in 1..Len(fullName) : fullName[i] = "/"
    THEN LET i == CHOOSE j \in 1..Len(fullName) :
                    /\ fullName[j] = "/"
                    /\ \A h \in 1..(j - 1) : fullName[h] # "/"
         IN  SubSeq(fullName, i + 1, Len(fullName))
    ELSE fullName

\* A repo topic against a category topic: substring either way, and exact
\* equality when either token is shorter than 3 characters
topicMatches(t, ct) ==
    IF Len(t) < 3 \/ Len(ct) < 3 THEN t = ct
    ELSE includes(t, ct) \/ includes(ct, t)

\* score(repo, category), in half points
CategoryScore(r, cat) ==
    LET lang   == toLowerCase(orEmpty(r.language))
        topics == lowerAll(r.topics)
        desc   == toLowerCase(orEmpty(r.description))
        name   == toLowerCase(nameSegment(orEmpty(r.full_name)))
        langScore ==
            IF \E i \in 1..Len(cat.languages) : toLowerCase(cat.languages[i]) = lang
            THEN 4 ELSE 0
        topicHits ==
            Len(SelectSeq(topics, LAMBDA t :
                \E i \in 1..Len(cat.topics) : topicMatches(t, cat.topics[i])))
        descHits ==
            Len(SelectSeq(cat.descriptionKeywords, LAMBDA kw :
                Len(kw) >= 4 /\ includes(desc, kw)))
        nameHits ==
            Len(SelectSeq(cat.descriptionKeywords, LAMBDA kw :
                Len(kw) >= 4 /\ includes(name, kw)))
    IN  langScore + topicHits * 6 + descHits * 3 + nameHits * 2

RECURSIVE SumCategoryScores(_, _)
SumCategoryScores(repos, cat) ==
    IF repos = << >> THEN 0
    ELSE CategoryScore(Head(repos), cat) + SumCategoryScores(Tail(repos), cat)

\* aggregate(owned, categories, 1): the owned-only score vector
computeOwnedRepoScores(owned) ==
    [i \in 1..Len(DOMAIN_SIGNALS) |->
        [ domain |-> DOMAIN_SIGNALS[i].domain,
          score  |-> SumCategoryScores(owned, DOMAIN_SIGNALS[i]) ]]

\* starred at 1x plus owned at 3x: the combined score vector
computeCategoryScores(stars, owned) ==
    [i \in 1..Len(DOMAIN_SIGNALS) |->
        [ domain |-> DOMAIN_SIGNALS[i].domain,
          score  |-> SumCategoryScores(stars, DOMAIN_SIGNALS[i])
                     + 3 * SumCategoryScores(owned, DOMAIN_SIGNALS[i]) ]]

---------------------------------------------------------------------------
(* Star interest clusters                                                  *)

\* The twelve matchers.  Each match function is a disjunction of: the
\* lower-cased full_name includes one of nameParts; one of the lower-cased
\* topics is a member of topics; the lower-cased description includes one
\* of descriptionParts; the lower-cased language is one of languages.
INTEREST_CLUSTERS ==
  <<
    [ label |-> "Nushell Ecosystem",
      nameParts |-> << <<"n","u","s","h","e","l","l">>, <<".","n","u">> >>,
      topics |->
        << <<"n","u","s","h","e","l","l">> >>,
      descriptionParts |-> <<>>,
      languages |-> << <<"n","u","s","h","e","l","l">> >> ],
    [ label |-> "Neovim & Editor",
      nameParts |-> << <<"n","v","i","m">>, <<"n","e","o","v","i","m">>, <<"h","e","l","i","x">> >>,
      topics |->
        << <<"n","e","o","v","i","m">>, <<"n","v","i","m">>, <<"v","i","m">>,
           <<"h","e","l","i","x">>, <<"e","d","i","t","o","r">>, <<"k","a","k","o","u","n","e">> >>,
      descriptionParts |-> <<>>,
      languages |-> <<>> ],
    [ label |-> "React / Frontend",
      nameParts |-> <<>>,
      topics |->
        << <<"r","e","a","c","t">>, <<"v","u","e">>, <<"s","v","e","l","t","e">>,
           <<"s","o","l","i","d">>, <<"f","r","o","n","t","e","n","d">>,
           <<"n","e","x","t","j","s">>, <<"n","u","x","t">>, <<"a","s","t","r","o">> >>,
      descriptionParts |-> <<>>,
      languages |-> <<>> ],
    [ label |-> "Rust Ecosystem",
      nameParts |-> <<>>,
      topics |->
        <<>>,
      descriptionParts |-> <<>>,
      languages |-> << <<"r","u","s","t">> >> ],
    [ label |-> "Security & Hacking",
      nameParts |-> <<>>,
      topics |->
        << <<"s","e","c","u","r","i","t","y">>, <<"c","v","e">>,
           <<"v","u","l","n","e","r","a","b","i","l","i","t","y">>,
           <<"p","e","n","e","t","r","a","t","i","o","n","-","t","e","s","t","i","n","g">>,
           <<"h","a","c","k","i","n","g">>, <<"e","x","p","l","o","i","t">>, <<"c","t","f">>,
           <<"c","y","b","e","r","s","e","c","u","r","i","t","y">> >>,
      descriptionParts |-> << <<"s","e","c","u","r","i","t","y">>,
                              <<"v","u","l","n","e","r","a","b","i","l","i","t","y">>, <<"e","x","p","l","o","i","t">> >>,
      languages |-> <<>> ],
    [ label |-> "AI & LLM",
      nameParts |-> <<>>,
      topics |->
        << <<"a","i">>, <<"l","l","m">>,
           <<"m","a","c","h","i","n","e","-","l","e","a","r","n","i","n","g">>, <<"g","p","t">>,
           <<"e","m","b","e","d","d","i","n","g","s">>, <<"a","i","-","a","g","e","n","t">>,
           <<"o","p","e","n","a","i">>, <<"a","n","t","h","r","o","p","i","c">> >>,
      descriptionParts |-> << <<"a","i"," ">>, <<"l","l","m">>,
                              <<"m","a","c","h","i","n","e"," ","l","e","a","r","n","i","n","g">> >>,
      languages |-> <<>> ],
    [ label |-> "DevOps & Infrastructure",
      nameParts |-> <<>>,
      topics |->
        << <<"k","u","b","e","r","n","e","t","e","s">>, <<"d","o","c","k","e","r">>,
           <<"t","e","r","r","a","f","o","r","m">>, <<"a","n","s","i","b","l","e">>,
           <<"d","e","v","o","p","s">>, <<"c","i","-","c","d">>,
           <<"i","n","f","r","a","s","t","r","u","c","t","u","r","e">>, <<"h","e","l","m">>,
           <<"g","i","t","o","p","s">> >>,
      descriptionParts |-> <<>>,
      languages |-> <<>> ],
    [ label |-> "CLI Tools",
      nameParts |-> <<>>,
      topics |->
        << <<"c","l","i">>, <<"c","o","m","m","a","n","d","-","l","i","n","e">>,
           <<"t","e","r","m","i","n","a","l">>, <<"t","u","i">> >>,
      descriptionParts |-> << <<"c","l","i">>, <<"c","o","m","m","a","n","d","-","l","i","n","e">>,
                              <<"t","e","r","m","i","n","a","l"," ","t","o","o","l">> >>,
      languages |-> <<>> ],
    [ label |-> "Desktop Apps",
      nameParts |-> <<>>,
      topics |->
        << <<"t","a","u","r","i">>, <<"e","l","e","c","t","r","o","n">>,
           <<"d","e","s","k","t","o","p">>, <<"g","t","k">>, <<"q","t">>,
           <<"c","r","o","s","s","-","p","l","a","t","f","o","r","m">>,
           <<"n","a","t","i","v","e","-","a","p","p">> >>,
      descriptionParts |-> <<>>,
      languages |-> <<>> ],
    [ label |-> "Cloud & Edge",
      nameParts |-> <<>>,
      topics |->
        << <<"c","l","o","u","d","f","l","a","r","e">>, <<"a","w","s">>,
           <<"s","e","r","v","e","r","l","e","s","s">>, <<"e","d","g","e">>,
           <<"w","o","r","k","e","r","s">>, <<"l","a","m","b","d","a">>,
           <<"v","e","r","c","e","l">>, <<"c","l","o","u","d">> >>,
      descriptionParts |-> << <<"c","l","o","u","d","f","l","a","r","e">>,
                              <<"s","e","r","v","e","r","l","e","s","s">>,
                              <<"e","d","g","e"," ","f","u","n","c","t","i","o","n">> >>,
      languages |-> <<>> ],
    [ label |-> "Linux / Desktop",
      nameParts |-> <<>>,
      topics |->
        << <<"l","i","n","u","x">>, <<"w","a","y","l","a","n","d">>,
           <<"h","y","p","r","l","a","n","d">>, <<"s","w","a","y">>, <<"i","3">>,
           <<"w","i","n","d","o","w","-","m","a","n","a","g","e","r">>,
           <<"d","e","s","k","t","o","p","-","e","n","v","i","r","o","n","m","e","n","t">>,
           <<"s","y","s","t","e","m","d">>, <<"d","o","t","f","i","l","e","s">>,
           <<"r","i","c","e">> >>,
      descriptionParts |-> <<>>,
      languages |-> <<>> ],
    [ label |-> "Static Sites & Blogs",
      nameParts |-> <<>>,
      topics |->
        << <<"z","o","l","a">>, <<"h","u","g","o">>, <<"j","e","k","y","l","l">>,
           <<"s","t","a","t","i","c","-","s","i","t","e">>, <<"b","l","o","g">>,
           <<"a","s","t","r","o">>, <<"s","s","g">>, <<"1","1","t","y">> >>,
      descriptionParts |-> << <<"s","t","a","t","i","c"," ","s","i","t","e">>,
                              <<"b","l","o","g"," ","t","h","e","m","e">> >>,
      languages |-> <<>> ]
  >>

\* INTEREST_CLUSTERS[label].match(repo)
clusterMatch(cluster, r) ==
    LET name   == toLowerCase(orEmpty(r.full_name))
        topics == lowerAll(r.topics)
        desc   == toLowerCase(orEmpty(r.description))
        lang   == toLowerCase(orEmpty(r.language))
    IN  \/ \E i \in 1..Len(cluster.nameParts) : includes(name, cluster.nameParts[i])
        \/ \E k \in 1..Len(topics) : \E i \in 1..Len(cluster.topics) :
               topics[k] = cluster.topics[i]
        \/ \E i \in 1..Len(cluster.descriptionParts) :
               includes(desc, cluster.descriptionParts[i])
        \/ \E i \in 1..Len(cluster.languages) : lang = cluster.languages[i]

\* undefined, the value of a missing array element
Undefined == << "undefined" >>

\* The position of the first "/" of a string, 0 when it has none
firstSlash(s) ==
    IF \A i \in 1..Len(s) : s[i] # "/" THEN 0
    ELSE CHOOSE j \in 1..Len(s) : s[j] = "/" /\ \A h \in 1..(j - 1) : s[h] # "/"

\* full_name.split("/")[1]: what lies between the first separator and the
\* next one, undefined when there is no separator
secondSegment(fullName) ==
    IF firstSlash(fullName) = 0 THEN Undefined
    ELSE LET rest == SubSeq(fullName, firstSlash(fullName) + 1, Len(fullName))
         IN  IF firstSlash(rest) = 0 THEN rest
             ELSE SubSeq(rest, 1, firstSlash(rest) - 1)

\* Array.prototype.join(", "): undefined elements are joined as ""
RECURSIVE joinComma(_)
joinComma(names) ==
    IF names = << >> THEN << >>
    ELSE LET first == IF Head(names) = Undefined THEN << >> ELSE Head(names)
         IN  IF Len(names) = 1 THEN first
             ELSE first \o << ",", " " >> \o joinComma(Tail(names))

\* The displayed count: "15+ repos", "10+ repos", "5+ repos" or "<n> repos"
countStr(n) ==
    IF n >= 15 THEN [ n |-> 15, text |-> "+ repos" ]
    ELSE IF n >= 10 THEN [ n |-> 10, text |-> "+ repos" ]
    ELSE IF n >= 5 THEN [ n |-> 5, text |-> "+ repos" ]
    ELSE [ n |-> n, text |-> " repos" ]

\* A variant that keeps a cluster with a single matching repo
clusterKept_single(n) == n >= 1

\* matching.length >= 2
clusterKept(n) == n >= 2

\* results.sort((a, b) => b.matchCount - a.matchCount), a stable sort
RECURSIVE InsertByCount(_, _)
InsertByCount(e, acc) ==
    IF acc = << >> THEN << e >>
    ELSE IF Head(acc).matchCount >= e.matchCount
         THEN << Head(acc) >> \o InsertByCount(e, Tail(acc))
         ELSE << e >> \o acc

RECURSIVE SortByCountInto(_, _)
SortByCountInto(rest, acc) ==
    IF rest = << >> THEN acc
    ELSE SortByCountInto(Tail(rest), InsertByCount(Head(rest), acc))

\* The result pushed for one cluster
clusterResult(cluster, stars) ==
    LET matching == SelectSeq(stars, LAMBDA r : clusterMatch(cluster, r))
        shown    == SubSeq(matching, 1, IF Len(matching) < 5 THEN Len(matching) ELSE 5)
    IN  [ label      |-> cluster.label,
          count      |-> countStr(Len(matching)),
          examples   |-> joinComma([k \in 1..Len(shown) |-> secondSegment(shown[k].full_name)]),
          matchCount |-> Len(matching) ]

clusterStarInterests(stars) ==
    LET all     == [i \in 1..Len(INTEREST_CLUSTERS) |-> clusterResult(INTEREST_CLUSTERS[i], stars)]
        results == SelectSeq(all, LAMBDA c : clusterKept(c.matchCount))
        sorted  == SortByCountInto(results, << >>)
    IN  SubSeq(sorted, 1, IF Len(sorted) < 12 THEN Len(sorted) ELSE 12)

---------------------------------------------------------------------------
(* Project cards                                                           *)

\* A variant that also counts the keywords found in the name, as the
\* per-repo score of computeDomainScores does
MapScore_withName(r, signals) == RepoScore(r, signals)

\* The score mapRepoToPersonas gives a repo for one domain, in half
\* points: language, topics and description keywords
MapScore(r, signals) ==
    LET lang   == toLowerCase(orEmpty(r.language))
        topics == lowerAll(r.topics)
        desc   == toLowerCase(orEmpty(r.description))
        langScore ==
            IF \E i \in 1..Len(signals.languages) :
                   toLowerCase(signals.languages[i]) = lang
            THEN 4 ELSE 0
        topicHits ==
            Len(SelectSeq(topics, LAMBDA t :
                \E i \in 1..Len(signals.topics) :
                    \/ includes(t, signals.topics[i])
                    \/ includes(signals.topics[i], t)))
        descHits ==
            Len(SelectSeq(signals.descriptionKeywords, LAMBDA kw : includes(desc, kw)))
    IN  langScore + topicHits * 6 + descHits * 3

\* score >= 2, in half points
mapKept(score) == score >= 4

mapRepoToPersonas(r) ==
    LET all    == [i \in 1..Len(DOMAIN_SIGNALS) |->
                      [ domain |-> DOMAIN_SIGNALS[i].domain,
                        score  |-> MapScore(r, DOMAIN_SIGNALS[i]) ]]
        mapped_ == SelectSeq(all, LAMBDA m : mapKept(m.score))
        sorted == sortByScoreDesc(mapped_)
    IN  [k \in 1..Len(sorted) |-> sorted[k].domain]

UpperOf ==
    [c \in { LowerChars[i] : i \in 1..Len(LowerChars) } |->
        UpperChars[CHOOSE i \in 1..Len(LowerChars) : LowerChars[i] = c]]

toUpperChar(c) == IF c \in DOMAIN UpperOf THEN UpperOf[c] ELSE c

\* topic.split("-").map((w) => w.charAt(0).toUpperCase() + w.slice(1)).join(" "):
\* every "-" becomes a space and the first character of every word is
\* upper-cased
capitalizeTopic(topic) ==
    [i \in 1..Len(topic) |->
        IF topic[i] = "-" THEN " "
        ELSE IF i = 1 \/ topic[i - 1] = "-" THEN toUpperChar(topic[i])
        ELSE topic[i]]

\* The loop over repo.topics that fills tech, with its break at 8 entries
RECURSIVE techFrom(_, _, _)
techFrom(topics, tech, language) ==
    IF topics = << >> THEN tech
    ELSE LET display == capitalizeTopic(Head(topics))
             pushed  ==
                 IF /\ \A i \in 1..Len(tech) : tech[i] # display
                    /\ toLowerCase(display) # toLowerCase(orEmpty(language))
                 THEN Append(tech, display) ELSE tech
         IN  IF Len(pushed) >= 8 THEN pushed
             ELSE techFrom(Tail(topics), pushed, language)

\* An optional count (stargazers_count?, forks_count?) that is missing,
\* and one that is present
NoCount == [ present |-> FALSE, n |-> 0 ]
CountOf(n) == [ present |-> TRUE, n |-> n ]

\* (count || 0) for an optional number
orZero(count) == IF count.present THEN count.n ELSE 0

\* "https://github.com/"
GithubPrefix == << "h","t","t","p","s",":","/","/","g","i","t","h","u","b",".","c","o","m","/" >>

\* The card pushed for a repo with a non-empty persona map
projectCard(r, personaMap) ==
    [ name        |-> IF secondSegment(r.full_name) \in { Undefined, << >> }
                      THEN r.full_name ELSE secondSegment(r.full_name),
      description |-> orEmpty(r.description),
      url         |-> IF r.html_url = Null \/ r.html_url = << >>
                      THEN GithubPrefix \o r.full_name ELSE r.html_url,
      tech        |-> techFrom(r.topics,
                               IF orEmpty(r.language) # << >> THEN << r.language >> ELSE << >>,
                               r.language),
      persona_map |-> personaMap,
      language    |-> orEmpty(r.language),
      stars       |-> orZero(r.stargazers_count),
      forks       |-> orZero(r.forks_count) ]

\* A variant that sorts the cards by stars ascending
RECURSIVE InsertByStars_ascending(_, _)
InsertByStars_ascending(e, acc) ==
    IF acc = << >> THEN << e >>
    ELSE IF Head(acc).stars <= e.stars
         THEN << Head(acc) >> \o InsertByStars_ascending(e, Tail(acc))
         ELSE << e >> \o acc

\* cards.sort((a, b) => b.stars - a.stars), a stable sort
RECURSIVE InsertByStars(_, _)
InsertByStars(e, acc) ==
    IF acc = << >> THEN << e >>
    ELSE IF Head(acc).stars >= e.stars
         THEN << Head(acc) >> \o InsertByStars(e, Tail(acc))
         ELSE << e >> \o acc

RECURSIVE SortByStarsInto(_, _)
SortByStarsInto(rest, acc) ==
    IF rest = << >> THEN acc
    ELSE SortByStarsInto(Tail(rest), InsertByStars(Head(rest), acc))

\* The loop over ownedRepos: a repo without a persona map is skipped
RECURSIVE cardsOf(_)
cardsOf(repos) ==
    IF repos = << >> THEN << >>
    ELSE LET personaMap == mapRepoToPersonas(Head(repos))
         IN  IF Len(personaMap) = 0 THEN cardsOf(Tail(repos))
             ELSE << projectCard(Head(repos), personaMap) >> \o cardsOf(Tail(repos))

generateProjectCards(owned) == SortByStarsInto(cardsOf(owned), << >>)

---------------------------------------------------------------------------
(* The orchestrator                                                        *)

\* A variant that activates personas from the combined scores
activePersonasOf_combined(ownedNormalized, combinedNormalized) ==
    determinePersonas(combinedNormalized)

\* Step 3: the active personas come from the owned-only scores
activePersonasOf(ownedNormalized, combinedNormalized) ==
    determinePersonas(ownedNormalized)

\* Math.max(...ownedValues, 1)
maxOr1(entries) == IF MaxScore(entries) > 1 THEN MaxScore(entries) ELSE 1

\* A variant that values an axis by the persona's own (owned-only) score
radarAxesOf_ownedValue(activePersonas, combinedNormalized) ==
    [k \in 1..(IF Len(activePersonas) < 9 THEN Len(activePersonas) ELSE 9) |->
        [ domain     |-> activePersonas[k].persona_id,
          value      |-> activePersonas[k].confidence.num,
          sort_order |-> k - 1 ]]

\* Step 8: one axis per active persona, at most 9, valued by the combined
\* normalized score
radarAxesOf(activePersonas, combinedNormalized) ==
    [k \in 1..(IF Len(activePersonas) < 9 THEN Len(activePersonas) ELSE 9) |->
        [ domain     |-> activePersonas[k].persona_id,
          value      |-> scoreOf(combinedNormalized, activePersonas[k].persona_id),
          sort_order |-> k - 1 ]]

computeFullProfile(profile, owned, stars, year) ==
    LET ownedNormalized    == normalizeToRadar(computeOwnedRepoScores(owned))
        combinedNormalized == normalizeToRadar(computeCategoryScores(stars, owned))
        activePersonas     == activePersonasOf(ownedNormalized, combinedNormalized)
        maxOwnedScore      == maxOr1(ownedNormalized)
    IN  [ profile    |-> [ username |-> profile.login,
                           created_at |-> profile.created_at ],
          personas   |-> generatePersonaDetails(activePersonas, ownedNormalized,
                                                stars, owned, profile,
                                                maxOwnedScore, year),
          projects   |-> generateProjectCards(owned),
          radar_axes |-> radarAxesOf(activePersonas, combinedNormalized),
          star_interests |-> clusterStarInterests(stars) ]

---------------------------------------------------------------------------
(* Values of the variables a specification does not use                    *)

NormIdle ==
    /\ scores = << >> /\ normalized = << >> /\ pcNorm = "idle"
PersonaIdle ==
    /\ normalizedScores = << >> /\ personas = << >> /\ personasAgain = << >>
    /\ pcPersona = "idle"
ScoreIdle ==
    /\ repo = << >> /\ asStar = << >> /\ asOwned = << >> /\ pcScore = { }
FullIdle ==
    /\ githubProfile = << >> /\ ownedRepos = << >> /\ starLists = << >>
    /\ now = 0 /\ docs = << >> /\ pcFull = << >>
ExpIdle ==
    /\ expInput = << >> /\ experienceLevel = << >> /\ pcExp = "idle"
ClusterIdle ==
    /\ clusterStars = << >> /\ interests = << >> /\ pcCluster = "idle"
ProjectIdle ==
    /\ projRepos = << >> /\ cards = << >> /\ pcCards = "idle"
MapIdle ==
    /\ mapRepo = << >> /\ mapped = << >> /\ pcMap = "idle"
RefreshIdle ==
    /\ kvRateLimit = << >> /\ clockMs = 0 /\ reqPc = << >> /\ reqUser = << >> /\ reqResp = << >> /\ reqCount = << >> /\ accepted = << >> /\ profileQueue = << >>
PollIdle ==
    /\ dbProfiles = { } /\ dbPersonas = << >> /\ procPc = "idle" /\ procRows = << >> /\ procRuns = 0 /\ getPc = "idle" /\ getResp = 0 /\ getAfter = FALSE
StatsIdle ==
    /\ statLabels = << >> /\ statScore = 0 /\ stats = << >> /\ pcStats = "idle"
StarsIdle ==
    /\ relPersona = "" /\ relStars = << >> /\ relevant = << >> /\ pcRel = "idle"
FetchIdle ==
    /\ starCache = << >> /\ remoteStars = 0 /\ fetchPage = 0 /\ fetchedPages = 0 /\ starsFetched = 0 /\ pagesRead = 0 /\ stopReason = "" /\ starsMeta = << >> /\ pcFetch = "idle"
QueueIdle ==
    /\ batchSize = 0 /\ msgIndex = 0 /\ pcProc = "idle" /\ failures = << >> /\ msgCalls = << >> /\ settleOrder = << >>
TokenIdle ==
    /\ tokenInvalid = FALSE /\ githubToken = FALSE /\ callPc = << >> /\ callAuth = << >> /\ callRequests = << >> /\ callsMade = 0 /\ got401 = FALSE /\ authAfter401 = FALSE
ManifestIdle ==
    /\ r2Manifest = << >> /\ remoteList = << >> /\ manifestRuns = 0
RadarIdle ==
    /\ radarTable = << >> /\ upAxes = << >> /\ upPc = << >> /\ upIdx = << >>

NotNormIdle    == PersonaIdle /\ ScoreIdle /\ FullIdle /\ ExpIdle /\ ClusterIdle /\ ProjectIdle /\ MapIdle /\ RefreshIdle /\ PollIdle /\ StatsIdle /\ StarsIdle /\ FetchIdle /\ QueueIdle /\ TokenIdle /\ ManifestIdle /\ RadarIdle
NotPersonaIdle == NormIdle /\ ScoreIdle /\ FullIdle /\ ExpIdle /\ ClusterIdle /\ ProjectIdle /\ MapIdle /\ RefreshIdle /\ PollIdle /\ StatsIdle /\ StarsIdle /\ FetchIdle /\ QueueIdle /\ TokenIdle /\ ManifestIdle /\ RadarIdle
NotScoreIdle   == NormIdle /\ PersonaIdle /\ FullIdle /\ ExpIdle /\ ClusterIdle /\ ProjectIdle /\ MapIdle /\ RefreshIdle /\ PollIdle /\ StatsIdle /\ StarsIdle /\ FetchIdle /\ QueueIdle /\ TokenIdle /\ ManifestIdle /\ RadarIdle
NotFullIdle    == NormIdle /\ PersonaIdle /\ ScoreIdle /\ ExpIdle /\ ClusterIdle /\ ProjectIdle /\ MapIdle /\ RefreshIdle /\ PollIdle /\ StatsIdle /\ StarsIdle /\ FetchIdle /\ QueueIdle /\ TokenIdle /\ ManifestIdle /\ RadarIdle
NotExpIdle     == NormIdle /\ PersonaIdle /\ ScoreIdle /\ FullIdle /\ ClusterIdle /\ ProjectIdle /\ MapIdle /\ RefreshIdle /\ PollIdle /\ StatsIdle /\ StarsIdle /\ FetchIdle /\ QueueIdle /\ TokenIdle /\ ManifestIdle /\ RadarIdle
NotClusterIdle == NormIdle /\ PersonaIdle /\ ScoreIdle /\ FullIdle /\ ExpIdle /\ ProjectIdle /\ MapIdle /\ RefreshIdle /\ PollIdle /\ StatsIdle /\ StarsIdle /\ FetchIdle /\ QueueIdle /\ TokenIdle /\ ManifestIdle /\ RadarIdle
NotProjectIdle == NormIdle /\ PersonaIdle /\ ScoreIdle /\ FullIdle /\ ExpIdle /\ ClusterIdle /\ MapIdle /\ RefreshIdle /\ PollIdle /\ StatsIdle /\ StarsIdle /\ FetchIdle /\ QueueIdle /\ TokenIdle /\ ManifestIdle /\ RadarIdle
NotMapIdle     == NormIdle /\ PersonaIdle /\ ScoreIdle /\ FullIdle /\ ExpIdle /\ ClusterIdle /\ ProjectIdle /\ RefreshIdle /\ PollIdle /\ StatsIdle /\ StarsIdle /\ FetchIdle /\ QueueIdle /\ TokenIdle /\ ManifestIdle /\ RadarIdle
NotRefreshIdle == NormIdle /\ PersonaIdle /\ ScoreIdle /\ FullIdle /\ ExpIdle /\ ClusterIdle /\ ProjectIdle /\ MapIdle /\ PollIdle /\ StatsIdle /\ StarsIdle /\ FetchIdle /\ QueueIdle /\ TokenIdle /\ ManifestIdle /\ RadarIdle
NotPollIdle == NormIdle /\ PersonaIdle /\ ScoreIdle /\ FullIdle /\ ExpIdle /\ ClusterIdle /\ ProjectIdle /\ MapIdle /\ RefreshIdle /\ StatsIdle /\ StarsIdle /\ FetchIdle /\ QueueIdle /\ TokenIdle /\ ManifestIdle /\ RadarIdle
NotStatsIdle == NormIdle /\ PersonaIdle /\ ScoreIdle /\ FullIdle /\ ExpIdle /\ ClusterIdle /\ ProjectIdle /\ MapIdle /\ RefreshIdle /\ PollIdle /\ StarsIdle /\ FetchIdle /\ QueueIdle /\ TokenIdle /\ ManifestIdle /\ RadarIdle
NotStarsIdle == NormIdle /\ PersonaIdle /\ ScoreIdle /\ FullIdle /\ ExpIdle /\ ClusterIdle /\ ProjectIdle /\ MapIdle /\ RefreshIdle /\ PollIdle /\ StatsIdle /\ FetchIdle /\ QueueIdle /\ TokenIdle /\ ManifestIdle /\ RadarIdle
NotFetchIdle == NormIdle /\ PersonaIdle /\ ScoreIdle /\ FullIdle /\ ExpIdle /\ ClusterIdle /\ ProjectIdle /\ MapIdle /\ RefreshIdle /\ PollIdle /\ StatsIdle /\ StarsIdle /\ QueueIdle /\ TokenIdle /\ ManifestIdle /\ RadarIdle
NotQueueIdle == NormIdle /\ PersonaIdle /\ ScoreIdle /\ FullIdle /\ ExpIdle /\ ClusterIdle /\ ProjectIdle /\ MapIdle /\ RefreshIdle /\ PollIdle /\ StatsIdle /\ StarsIdle /\ FetchIdle /\ TokenIdle /\ ManifestIdle /\ RadarIdle
NotTokenIdle == NormIdle /\ PersonaIdle /\ ScoreIdle /\ FullIdle /\ ExpIdle /\ ClusterIdle /\ ProjectIdle /\ MapIdle /\ RefreshIdle /\ PollIdle /\ StatsIdle /\ StarsIdle /\ FetchIdle /\ QueueIdle /\ ManifestIdle /\ RadarIdle
NotManifestIdle == NormIdle /\ PersonaIdle /\ ScoreIdle /\ FullIdle /\ ExpIdle /\ ClusterIdle /\ ProjectIdle /\ MapIdle /\ RefreshIdle /\ PollIdle /\ StatsIdle /\ StarsIdle /\ FetchIdle /\ QueueIdle /\ TokenIdle /\ RadarIdle
NotRadarIdle == NormIdle /\ PersonaIdle /\ ScoreIdle /\ FullIdle /\ ExpIdle /\ ClusterIdle /\ ProjectIdle /\ MapIdle /\ RefreshIdle /\ PollIdle /\ StatsIdle /\ StarsIdle /\ FetchIdle /\ QueueIdle /\ TokenIdle /\ ManifestIdle

---------------------------------------------------------------------------
(* normalizeToRadar applied to a raw score vector                          *)

\* Largest raw score drawn, in half points
MaxRaw == 61

\* The raw scores of the documented scenario {systems: 80, platform: 40, cloud: 0}
ScenarioRaw == { 2 * 40, 2 * 80 }

RawScores == (0..MaxRaw) \cup ScenarioRaw

NormDomains == << "systems", "platform", "cloud" >>

InitNorm ==
    /\ \E f \in [1..Len(NormDomains) -> RawScores] :
           scores = [i \in 1..Len(NormDomains) |->
                        [ domain |-> NormDomains[i], score |-> f[i] ]]
    /\ normalized = << >>
    /\ pcNorm = "input"
    /\ NotNormIdle

Normalize ==
    /\ pcNorm = "input"
    /\ normalized' = normalizeToRadar(scores)
    /\ pcNorm' = "done"
    /\ UNCHANGED << scores, notNormVars >>

NextNorm == Normalize

SpecNorm == InitNorm /\ [][NextNorm]_vars

\* C1: after normalizeToRadar, a category's normalized score is 0 exactly
\* when its raw score is 0, and every category with a positive raw score
\* has an integer normalized score between 40 and 100.
NormalizedZeroOrInRange ==
    pcNorm = "done" =>
        /\ Len(normalized) = Len(scores)
        /\ \A i \in 1..Len(scores) :
            /\ normalized[i].domain = scores[i].domain
            /\ (normalized[i].score = 0) <=> (scores[i].score = 0)
            /\ scores[i].score > 0 => normalized[i].score \in 40..100

\* A vector with a zero score, a weak score that lands on the floor of 40
\* and the maximum has been normalized.
NormalizedFloorReached ==
    /\ pcNorm = "done"
    /\ \E i, j, k \in 1..Len(scores) :
        /\ scores[i].score = 0 /\ normalized[i].score = 0
        /\ scores[j].score > 0 /\ normalized[j].score = 40
        /\ normalized[k].score = 100

\* C2: every category whose raw score is the maximum normalizes to exactly
\* 100, unless all raw scores are 0, and then every category stays 0; the
\* scenario {systems: 80, platform: 40, cloud: 0} gives {100, 70, 0}.
MaxNormalizesTo100 ==
    pcNorm = "done" =>
        /\ \A i \in 1..Len(scores) :
            ( /\ scores[i].score > 0
              /\ \A j \in 1..Len(scores) : scores[j].score <= scores[i].score )
            => normalized[i].score = 100
        /\ (\A i \in 1..Len(scores) : scores[i].score = 0)
            => \A i \in 1..Len(scores) : normalized[i].score = 0
        /\ ( scores[1].score = 2 * 80 /\ scores[2].score = 2 * 40 /\ scores[3].score = 0 )
            => ( /\ normalized[1].score = 100
                 /\ normalized[2].score = 70
                 /\ normalized[3].score = 0 )

\* The scenario {systems: 80, platform: 40, cloud: 0} has been normalized.
ScenarioNormalized ==
    /\ pcNorm = "done"
    /\ scores[1].score = 2 * 80 /\ scores[2].score = 2 * 40 /\ scores[3].score = 0
    /\ normalized[1].score = 100

\* C10 as stated: between two categories with non-zero raw scores, a
\* strictly smaller raw score gives a strictly smaller normalized score, and
\* equal raw scores give equal normalized scores.
OrderStrictlyPreserved ==
    pcNorm = "done" =>
        \A a, b \in 1..Len(scores) :
            (scores[a].score > 0 /\ scores[b].score > 0) =>
                /\ scores[a].score < scores[b].score
                    => normalized[a].score < normalized[b].score
                /\ scores[a].score = scores[b].score
                    => normalized[a].score = normalized[b].score

\* C10 as amended: between two categories with non-zero raw scores the
\* order is never inverted (a smaller raw score gives a normalized score
\* that is smaller or equal), and equal raw scores give equal normalized
\* scores.
OrderNeverInverted ==
    pcNorm = "done" =>
        \A a, b \in 1..Len(scores) :
            (scores[a].score > 0 /\ scores[b].score > 0) =>
                /\ scores[a].score < scores[b].score
                    => normalized[a].score <= normalized[b].score
                /\ scores[a].score = scores[b].score
                    => normalized[a].score = normalized[b].score

\* Two different non-zero raw scores were rounded to the same radar value,
\* below a third that stays strictly above them.
RoundedTogether ==
    /\ pcNorm = "done"
    /\ \E a, b, c \in 1..Len(scores) :
        /\ 0 < scores[a].score /\ scores[a].score < scores[b].score
        /\ normalized[a].score = normalized[b].score
        /\ normalized[b].score < normalized[c].score

---------------------------------------------------------------------------
(* determinePersonas applied to a normalized score vector                  *)

\* Normalized scores drawn: 0, the radar floor, both sides of the
\* threshold, a middle value and the top
PersonaScores == { 0, 40, 44, 45, 70, 100 }

PersonaDomains == << "systems", "platform", "cloud", "linux", "dad" >>

InitPersona ==
    /\ \E f \in [1..Len(PersonaDomains) -> PersonaScores] :
           normalizedScores = [i \in 1..Len(PersonaDomains) |->
                        [ domain |-> PersonaDomains[i], score |-> f[i] ]]
    /\ personas = << >>
    /\ personasAgain = << >>
    /\ pcPersona = "input"
    /\ NotPersonaIdle

\* The first call.  The argument object is read through Object.entries and
\* is left as argumentAfter says.
Determine ==
    /\ pcPersona = "input"
    /\ personas' = determinePersonas(normalizedScores)
    /\ normalizedScores' = argumentAfter(normalizedScores)
    /\ pcPersona' = "done"
    /\ UNCHANGED << personasAgain, notPersonaVars >>

\* A second call with the same argument object
DetermineAgain ==
    /\ pcPersona = "done"
    /\ personasAgain' = determinePersonas(normalizedScores)
    /\ normalizedScores' = argumentAfter(normalizedScores)
    /\ pcPersona' = "again"
    /\ UNCHANGED << personas, notPersonaVars >>

NextPersona == Determine \/ DetermineAgain

SpecPersona == InitPersona /\ [][NextPersona]_vars

\* C3: a category is in the output of determinePersonas exactly when its
\* normalized score is at least 45, and each entry's confidence is that
\* score divided by 100, a value in [0, 1]; the scenario {systems: 100,
\* platform: 70, cloud: 0, linux: 44} activates systems with 1.0 and
\* platform with 0.7 and nothing else.
ActiveIffAtThreshold ==
    pcPersona = "done" =>
        /\ \A i \in 1..Len(normalizedScores) :
            (normalizedScores[i].score >= 45)
            <=> (\E k \in 1..Len(personas) :
                    personas[k].persona_id = normalizedScores[i].domain)
        /\ \A k \in 1..Len(personas) :
            \E i \in 1..Len(normalizedScores) :
                /\ normalizedScores[i].domain = personas[k].persona_id
                /\ personas[k].confidence.den > 0
                /\ personas[k].confidence.num * 100
                       = normalizedScores[i].score * personas[k].confidence.den
                /\ 0 <= personas[k].confidence.num
                /\ personas[k].confidence.num <= personas[k].confidence.den
        /\ ( /\ normalizedScores[1].score = 100 /\ normalizedScores[2].score = 70
             /\ normalizedScores[3].score = 0   /\ normalizedScores[4].score = 44
             /\ normalizedScores[5].score = 0 )
            => ( /\ Len(personas) = 2
                 /\ personas[1].persona_id = "systems"
                 /\ personas[1].confidence.num = personas[1].confidence.den
                 /\ personas[2].persona_id = "platform"
                 /\ personas[2].confidence.num * 10 = 7 * personas[2].confidence.den )

\* The scenario {systems: 100, platform: 70, cloud: 0, linux: 44} has been
\* thresholded.
ScenarioActivated ==
    /\ pcPersona = "done"
    /\ normalizedScores[1].score = 100 /\ normalizedScores[2].score = 70
    /\ normalizedScores[3].score = 0   /\ normalizedScores[4].score = 44
    /\ normalizedScores[5].score = 0
    /\ Len(personas) = 2

\* The position of a persona's category in the input vector
InputIndex(id) ==
    CHOOSE i \in 1..Len(normalizedScores) : normalizedScores[i].domain = id

\* C4: the output of determinePersonas is sorted by normalized score
\* descending, categories with equal scores keep their input order, and
\* sort_order is the dense 0-based position 0, 1, ..., n-1.
SortedStableDenseRank ==
    pcPersona = "done" =>
        /\ \A k, l \in 1..Len(personas) :
            k < l =>
                /\ personas[k].confidence.num >= personas[l].confidence.num
                /\ personas[k].confidence.num = personas[l].confidence.num
                    => InputIndex(personas[k].persona_id)
                         < InputIndex(personas[l].persona_id)
        /\ \A k \in 1..Len(personas) : personas[k].sort_order = k - 1

\* An output of three or more personas in which the sort moved a later
\* category ahead of an earlier one and two categories tie.
SortedWithTie ==
    /\ pcPersona = "done"
    /\ Len(personas) >= 3
    /\ \E k, l \in 1..Len(personas) :
        /\ k < l
        /\ InputIndex(personas[k].persona_id) > InputIndex(personas[l].persona_id)
    /\ \E k, l \in 1..Len(personas) :
        /\ k < l
        /\ personas[k].confidence.num = personas[l].confidence.num

DadNeverActive ==
    pcPersona = "done" =>
        \A k \in 1..Len(personas) : personas[k].persona_id # "dad"

---------------------------------------------------------------------------
(* computeDomainScores applied to one repository, starred and owned        *)

\* Longest topic list drawn
MaxTopics == 2

LanguagePool == { Null, << "R","u","s","t" >>, << "R","U","S","T" >>, << "H","C","L" >> }

TopicPool == { << "k","e","r","n","e","l" >>, << "l","i","n","u","x","-","k","e","r","n","e","l" >>, << "D","o","c","k","e","r" >>, << "g","o" >> }

DescriptionPool == { Null, << "a"," ","f","a","s","t"," ","c","o","m","m","a","n","d"," ","l","i","n","e"," ","t","o","o","l" >>,
                     << "K","e","r","n","e","l"," ","d","a","t","a","b","a","s","e"," ","A","P","I" >> }

FullNamePool == { << "a","c","m","e","/","f","o","o" >>, << "k","e","r","n","e","l","-","l","a","b","s","/","f","o","o" >>,
                  << "a","c","m","e","/","h","e","l","m","-","c","h","a","r","t","s" >> }

TopicLists == UNION { [1..n -> TopicPool] : n \in 0..MaxTopics }

RepoPool ==
    { [ full_name |-> fn, language |-> l, topics |-> ts, description |-> d ] :
        fn \in FullNamePool, l \in LanguagePool, ts \in TopicLists,
        d \in DescriptionPool }

InitScore ==
    /\ repo \in RepoPool
    /\ asStar = << >>
    /\ asOwned = << >>
    /\ pcScore = { }
    /\ NotScoreIdle

ScoreStarred ==
    /\ "star" \notin pcScore
    /\ asStar' = computeDomainScores(<< repo >>, << >>)
    /\ pcScore' = pcScore \cup { "star" }
    /\ UNCHANGED << repo, asOwned, notScoreVars >>

ScoreOwned ==
    /\ "owned" \notin pcScore
    /\ asOwned' = computeDomainScores(<< >>, << repo >>)
    /\ pcScore' = pcScore \cup { "owned" }
    /\ UNCHANGED << repo, asStar, notScoreVars >>

NextScore == ScoreStarred \/ ScoreOwned

SpecScore == InitScore /\ [][NextScore]_vars

LanguageMatches(r, sg) ==
    \E l \in 1..Len(sg.languages) :
        toLowerCase(sg.languages[l]) = toLowerCase(orEmpty(r.language))
MatchingTopics(r, sg) ==
    { k \in 1..Len(r.topics) :
        \E c \in 1..Len(sg.topics) :
            \/ includes(toLowerCase(r.topics[k]), sg.topics[c])
            \/ includes(sg.topics[c], toLowerCase(r.topics[k])) }
DescriptionKeywords(r, sg) ==
    { k \in 1..Len(sg.descriptionKeywords) :
        includes(toLowerCase(orEmpty(r.description)), sg.descriptionKeywords[k]) }
NameKeywords(r, sg) ==
    { k \in 1..Len(sg.descriptionKeywords) :
        includes(toLowerCase(orEmpty(r.full_name)), sg.descriptionKeywords[k]) }

GatedTopics(r, sg) ==
    { k \in 1..Len(r.topics) :
        \E c \in 1..Len(sg.topics) : topicMatches(toLowerCase(r.topics[k]), sg.topics[c]) }

\* C12 as stated: a repo topic matches a category topic when either
\* contains the other, except that a token shorter than 3 characters has to
\* be exactly equal; the topic part of the per-repo score is 3 per topic
\* that matches in this sense, so a short topic never scores through
\* containment alone.
ShortTopicsMatchExactly ==
    "star" \in pcScore =>
        \A i \in 1..Len(DOMAIN_SIGNALS) :
            LET sg == DOMAIN_SIGNALS[i]
            IN  asStar[i].score =
                    (IF LanguageMatches(repo, sg) THEN 4 ELSE 0)
                    + 6 * Cardinality(GatedTopics(repo, sg))
                    + 3 * Cardinality(DescriptionKeywords(repo, sg))
                    + 2 * Cardinality(NameKeywords(repo, sg))

\* The keywords of at least 4 characters among a set of keyword positions
LongKeywords(ks, sg) == { k \in ks : Len(sg.descriptionKeywords[k]) >= 4 }

\* C13 as stated: a category keyword adds to the description score (1.5)
\* or to the name score (1) only if it is at least 4 characters long; a
\* keyword of 3 characters or fewer never adds to a repository's score.
ShortKeywordsNeverScore ==
    "star" \in pcScore =>
        \A i \in 1..Len(DOMAIN_SIGNALS) :
            LET sg == DOMAIN_SIGNALS[i]
            IN  asStar[i].score =
                    (IF LanguageMatches(repo, sg) THEN 4 ELSE 0)
                    + 6 * Cardinality(MatchingTopics(repo, sg))
                    + 3 * Cardinality(LongKeywords(DescriptionKeywords(repo, sg), sg))
                    + 2 * Cardinality(LongKeywords(NameKeywords(repo, sg), sg))

\* C14 as stated: name keywords are looked for in the name segment after
\* the owner separator only, so a repository that differs from the scored
\* one in the owner part of full_name alone receives the same score for
\* every category.
OwnerSegmentIgnored ==
    "star" \in pcScore =>
        \A fn \in FullNamePool :
            nameSegment(fn) = nameSegment(repo.full_name) =>
                computeDomainScores(<< [repo EXCEPT !.full_name = fn] >>, << >>) = asStar

---------------------------------------------------------------------------
(* computeFullProfile called twice, while the wall clock advances          *)

\* Longest repository list drawn (owned, and starred)
MaxRepos == 1

\* The years the wall clock shows during the run
ClockYears == { 2023, 2024 }

\* created_at: a well-formed date and a malformed one
CreatedPool == { [ valid |-> TRUE, year |-> 2015 ],
                 [ valid |-> FALSE, year |-> 0 ] }

OwnedPool ==
    { [ full_name |-> << "k","e","r","n","e","l","-","l","a","b","s","/","f","o","o" >>, language |-> << "R","u","s","t" >>,
        topics |-> << << "k","e","r","n","e","l" >> >>, description |-> << "K","e","r","n","e","l"," ","d","a","t","a","b","a","s","e" >>,
        stargazers_count |-> CountOf(2), forks_count |-> NoCount, html_url |-> Null ],
      [ full_name |-> << "a","c","m","e","/","h","e","l","m","-","c","h","a","r","t","s" >>, language |-> << "H","C","L" >>,
        topics |-> << << "D","o","c","k","e","r" >> >>, description |-> << "a"," ","f","a","s","t"," ","c","o","m","m","a","n","d"," ","l","i","n","e"," ","t","o","o","l" >>,
        stargazers_count |-> CountOf(2), forks_count |-> NoCount, html_url |-> Null ] }

StarPool ==
    { [ full_name |-> << "a","c","m","e","/","h","e","l","m","-","c","h","a","r","t","s" >>, language |-> << "H","C","L" >>,
        topics |-> << << "D","o","c","k","e","r" >>, << "k","e","r","n","e","l" >> >>, description |-> Null ],
      [ full_name |-> << "a","c","m","e","/","f","o","o" >>, language |-> << "R","u","s","t" >>,
        topics |-> << >>, description |-> << "a"," ","f","a","s","t"," ","c","o","m","m","a","n","d"," ","l","i","n","e"," ","t","o","o","l" >> ] }

ListsOf(pool) == UNION { [1..n -> pool] : n \in 0..MaxRepos }

InitFull ==
    /\ githubProfile \in { [ login |-> "octocat", created_at |-> c ] : c \in CreatedPool }
    /\ ownedRepos \in ListsOf(OwnedPool)
    /\ starLists \in [1..2 -> ListsOf(StarPool)]
    /\ now = CHOOSE y \in ClockYears : \A z \in ClockYears : y <= z
    /\ docs = [c \in 1..2 |-> << >>]
    /\ pcFull = [c \in 1..2 |-> "ready"]
    /\ NotFullIdle

\* One call of computeFullProfile(githubProfile, ownedRepos, starLists[c])
Invoke(c) ==
    /\ pcFull[c] = "ready"
    /\ docs' = [docs EXCEPT ![c] =
                   computeFullProfile(githubProfile, ownedRepos, starLists[c], now)]
    /\ pcFull' = [pcFull EXCEPT ![c] = "done"]
    /\ UNCHANGED << githubProfile, ownedRepos, starLists, now, notFullVars >>

\* The new year: the wall clock moves on between and around the calls
Tick ==
    /\ now + 1 \in ClockYears
    /\ now' = now + 1
    /\ UNCHANGED << githubProfile, ownedRepos, starLists, docs, pcFull, notFullVars >>

NextFull == (\E c \in 1..2 : Invoke(c)) \/ Tick

SpecFull == InitFull /\ [][NextFull]_vars

\* The ids, confidences and ranks of a document's persona list
personaIdentity(doc) ==
    [k \in 1..Len(doc.personas) |->
        [ persona_id |-> doc.personas[k].persona_id,
          confidence |-> doc.personas[k].confidence,
          sort_order |-> doc.personas[k].sort_order ]]

SameInputsSameDocument ==
    (pcFull[1] = "done" /\ pcFull[2] = "done" /\ starLists[1] = starLists[2]) =>
        docs[1] = docs[2]

---------------------------------------------------------------------------
(* estimateExperience applied to a profile and a score                     *)

\* Oldest account drawn, in years before the first clock year
MaxAge == 10

\* created_at: the well-formed dates and a malformed one
ExpCreatedPool ==
    LET first == CHOOSE y \in ClockYears : \A z \in ClockYears : y <= z
    IN  { [ valid |-> TRUE, year |-> y ] : y \in (first - MaxAge)..first }
        \cup { [ valid |-> FALSE, year |-> 0 ] }

\* domainScore: both sides of each ratio threshold when maxScore is 100
ExpScores == { 0, 1, 30, 31, 50, 51, 70, 71, 85, 86, 90, 100 }

\* maxScore: Math.max(...values, 1) is at least 1
ExpMaxScores == { 1, 20, 100 }

InitExp ==
    /\ expInput \in { [ profile |-> [ created_at |-> c ], domainScore |-> d,
                         maxScore |-> m, year |-> y ] :
                         c \in ExpCreatedPool, d \in ExpScores, m \in ExpMaxScores,
                         y \in ClockYears }
    /\ experienceLevel = << >>
    /\ pcExp = "input"
    /\ NotExpIdle

\* estimateExperience(profile, domainScore, maxScore), called when the wall
\* clock shows expInput.year
Estimate ==
    /\ pcExp = "input"
    /\ experienceLevel' = estimateExperience(expInput.profile, expInput.domainScore,
                                              expInput.maxScore, expInput.year)
    /\ pcExp' = "done"
    /\ UNCHANGED << expInput, notExpVars >>

NextExp == Estimate

SpecExp == InitExp /\ [][NextExp]_vars

\* The label "{n}+ years" and the label "Active"
PlusYears(n) == [ text |-> "+ years", age |-> [ nan |-> FALSE, n |-> n ] ]
ActiveLabel == [ text |-> "Active", age |-> [ nan |-> FALSE, n |-> 0 ] ]

\* C15: for a well-formed creation date, with age = current year - creation
\* year and ratio = domainScore / maxScore, estimateExperience returns the
\* result of the first rule that matches, in this order: ratio > 0.85 and
\* age > 8 gives "Principal"; ratio > 0.70 and age > 5 gives "Staff";
\* ratio > 0.50 and age > 3 gives "Senior"; ratio > 0.30 gives the empty
\* prefix; all four with the label "{age}+ years"; otherwise the empty
\* prefix with the label "Active".  Age 10 and ratio 0.9 give Principal,
\* "10+ years".
FirstMatchingRuleWins ==
    (pcExp = "done" /\ expInput.profile.created_at.valid) =>
        LET age == expInput.year - expInput.profile.created_at.year
            d   == expInput.domainScore
            m   == expInput.maxScore
            expected ==
                IF      100 * d > 85 * m /\ age > 8 THEN [ prefix |-> "Principal", years |-> PlusYears(age) ]
                ELSE IF 100 * d > 70 * m /\ age > 5 THEN [ prefix |-> "Staff", years |-> PlusYears(age) ]
                ELSE IF 100 * d > 50 * m /\ age > 3 THEN [ prefix |-> "Senior", years |-> PlusYears(age) ]
                ELSE IF 100 * d > 30 * m             THEN [ prefix |-> "", years |-> PlusYears(age) ]
                ELSE [ prefix |-> "", years |-> ActiveLabel ]
        IN  /\ experienceLevel = expected
            /\ (age = 10 /\ d = 90 /\ m = 100)
                => experienceLevel = [ prefix |-> "Principal", years |-> PlusYears(10) ]

\* The scenario has been estimated: an account created 10 years ago with
\* ratio 0.9 is a Principal with "10+ years".
ScenarioPrincipal ==
    /\ pcExp = "done"
    /\ expInput.profile.created_at.valid
    /\ expInput.year - expInput.profile.created_at.year = 10
    /\ expInput.domainScore = 90 /\ expInput.maxScore = 100
    /\ experienceLevel.prefix = "Principal"

\* C16 as stated: for a malformed creation date the age falls back to 0 and
\* the result is the final branch, the empty prefix with the label
\* "Active", for every ratio.
MalformedDateIsActive ==
    (pcExp = "done" /\ ~expInput.profile.created_at.valid) =>
        experienceLevel = [ prefix |-> "", years |-> ActiveLabel ]

---------------------------------------------------------------------------
(* clusterStarInterests applied to a list of starred repositories          *)

\* Longest starred list drawn
MaxStars == 4

ClusterRepoPool ==
    { [ full_name |-> << "a","c","m","e","/","f","d" >>, language |-> << "R","u","s","t" >>,
        topics |-> << << "c","l","i" >> >>, description |-> << "a"," ","f","a","s","t"," ","c","o","m","m","a","n","d"," ","l","i","n","e"," ","t","o","o","l" >> ],
      [ full_name |-> << "a","c","m","e","/","r","g" >>, language |-> << "R","U","S","T" >>,
        topics |-> << << "d","o","c","k","e","r" >> >>, description |-> Null ],
      [ full_name |-> << "a","c","m","e","/","d","o","c","k" >>, language |-> Null,
        topics |-> << << "C","L","I" >>, << "d","o","c","k","e","r" >> >>, description |-> Null ],
      [ full_name |-> << "n","u","s","h","e","l","l","/","n","u","_","s","c","r","i","p","t","s" >>, language |-> << "N","u","s","h","e","l","l" >>,
        topics |-> << >>, description |-> << "t","e","r","m","i","n","a","l"," ","t","o","o","l" >> ] }

InitCluster ==
    /\ clusterStars \in UNION { [1..n -> ClusterRepoPool] : n \in 0..MaxStars }
    /\ interests = << >>
    /\ pcCluster = "input"
    /\ NotClusterIdle

Cluster ==
    /\ pcCluster = "input"
    /\ interests' = clusterStarInterests(clusterStars)
    /\ pcCluster' = "done"
    /\ UNCHANGED << clusterStars, notClusterVars >>

NextCluster == Cluster

SpecCluster == InitCluster /\ [][NextCluster]_vars

\* The number of starred repositories a cluster's matcher selects
MatchCount(i) ==
    Cardinality({ k \in 1..Len(clusterStars) :
                    clusterMatch(INTEREST_CLUSTERS[i], clusterStars[k]) })

\* C18: a cluster with fewer than 2 matching repos never appears in the
\* output of clusterStarInterests, every cluster with at least 2 matches
\* appears (with its raw match count) unless the cap cuts it, the output
\* has at most 12 clusters, and it is sorted by raw match count descending.
ClustersKeptSortedCapped ==
    pcCluster = "done" =>
        LET qualifying == { i \in 1..Len(INTEREST_CLUSTERS) : MatchCount(i) >= 2 }
        IN  /\ Len(interests) <= 12
            /\ \A i \in 1..Len(INTEREST_CLUSTERS) :
                MatchCount(i) < 2 =>
                    \A k \in 1..Len(interests) :
                        interests[k].label # INTEREST_CLUSTERS[i].label
            /\ Cardinality(qualifying) <= 12 =>
                \A i \in qualifying :
                    \E k \in 1..Len(interests) :
                        /\ interests[k].label = INTEREST_CLUSTERS[i].label
                        /\ interests[k].matchCount = MatchCount(i)
            /\ \A k, l \in 1..Len(interests) :
                k < l => /\ interests[k].matchCount >= interests[l].matchCount
                         /\ interests[k].label # interests[l].label

\* Three or more clusters came out, the sort moved a later cluster of the
\* catalog to the front and kept two clusters of equal count in catalog
\* order, and a cluster with exactly one match was left out.
ClustersReordered ==
    /\ pcCluster = "done"
    /\ Len(interests) >= 3
    /\ interests[1].label = "CLI Tools"
    /\ interests[1].matchCount > interests[2].matchCount
    /\ interests[2].matchCount = interests[3].matchCount
    /\ \E i \in 1..Len(INTEREST_CLUSTERS) : MatchCount(i) = 1

---------------------------------------------------------------------------
(* generateProjectCards applied to a list of owned repositories            *)

\* Longest owned list drawn
MaxOwned == 3

ProjectRepoPool ==
    { [ full_name |-> << "a","c","m","e","/","h","e","l","m","-","c","h","a","r","t","s" >>, language |-> << "H","C","L" >>,
        topics |-> << << "D","o","c","k","e","r" >>, << "g","o" >> >>, description |-> Null,
        stargazers_count |-> NoCount, forks_count |-> NoCount, html_url |-> Null ],
      [ full_name |-> << "a","c","m","e","/","f","o","o" >>, language |-> Null,
        topics |-> << >>, description |-> << "a"," ","f","a","s","t"," ","c","o","m","m","a","n","d"," ","l","i","n","e"," ","t","o","o","l" >>,
        stargazers_count |-> CountOf(9), forks_count |-> CountOf(1), html_url |-> Null ],
      [ full_name |-> << "k","e","r","n","e","l","-","l","a","b","s","/","f","o","o" >>, language |-> << "R","u","s","t" >>,
        topics |-> << << "k","e","r","n","e","l" >> >>, description |-> << "K","e","r","n","e","l"," ","d","a","t","a","b","a","s","e"," ","A","P","I" >>,
        stargazers_count |-> CountOf(7), forks_count |-> CountOf(2),
        html_url |-> << "h","t","t","p","s",":","/","/","e","x","a","m","p","l","e",".","o","r","g","/","f","o","o" >> ],
      [ full_name |-> << "a","c","m","e","/","d","o","c","k" >>, language |-> Null,
        topics |-> << << "d","o","c","k","e","r" >> >>, description |-> Null,
        stargazers_count |-> CountOf(3), forks_count |-> NoCount, html_url |-> Null ] }

InitProjects ==
    /\ projRepos \in UNION { [1..n -> ProjectRepoPool] : n \in 0..MaxOwned }
    /\ cards = << >>
    /\ pcCards = "input"
    /\ NotProjectIdle

Generate ==
    /\ pcCards = "input"
    /\ cards' = generateProjectCards(projRepos)
    /\ pcCards' = "done"
    /\ UNCHANGED << projRepos, notProjectVars >>

NextProjects == Generate

SpecProjects == InitProjects /\ [][NextProjects]_vars

\* The positions of the owned list that hold repository r, and the
\* positions of the card list that hold a card of r
OwnedAt(r) == { k \in 1..Len(projRepos) : projRepos[k] = r }
CardsFor(r) == { k \in 1..Len(cards) : cards[k].url = projectCard(r, << >>).url }

\* C19: the output of generateProjectCards holds exactly one card for each
\* owned repository that maps to at least one category and no card for a
\* repository with zero category matches, and the list is sorted by star
\* count descending, a missing star count counting as 0.
CardsForMappedReposByStars ==
    pcCards = "done" =>
        /\ \A r \in ProjectRepoPool :
            /\ mapRepoToPersonas(r) = << >> => CardsFor(r) = { }
            /\ mapRepoToPersonas(r) # << >> =>
                /\ Cardinality(CardsFor(r)) = Cardinality(OwnedAt(r))
                /\ \A k \in CardsFor(r) :
                    /\ cards[k].persona_map = mapRepoToPersonas(r)
                    /\ cards[k].stars =
                          (IF r.stargazers_count.present THEN r.stargazers_count.n ELSE 0)
        /\ \A k \in 1..Len(cards) : \E r \in ProjectRepoPool : k \in CardsFor(r)
        /\ \A k, l \in 1..Len(cards) : k < l => cards[k].stars >= cards[l].stars

\* Of three owned repositories two have a card, in another order than they
\* went in: the repository without a star count comes last, and the
\* repository with the most stars has no card.
CardsSortedAndSkipped ==
    /\ pcCards = "done"
    /\ Len(projRepos) = 3
    /\ Len(cards) = 2
    /\ ~projRepos[1].stargazers_count.present
    /\ cards[2].stars = 0 /\ cards[1].stars > 0
    /\ \E k \in 1..Len(projRepos) :
        /\ projRepos[k].stargazers_count.present
        /\ projRepos[k].stargazers_count.n > cards[1].stars

---------------------------------------------------------------------------
(* mapRepoToPersonas applied to one repository                             *)

MapNamePool == { << "a","c","m","e","/","f","o","o" >>, << "a","c","m","e","/","k","e","r","n","e","l" >> }

MapLanguagePool == { Null, << "R","u","s","t" >>, << "H","C","L" >> }

MapTopicsPool == { << >>, << << "k","e","r","n","e","l" >> >>, << << "D","o","c","k","e","r" >> >>, << << "g","o" >> >> }

MapDescriptionPool == { Null, << "K","e","r","n","e","l"," ","d","a","t","a","b","a","s","e"," ","A","P","I" >>, << "a"," ","k","e","r","n","e","l" >> }

MapRepoPool ==
    { [ full_name |-> fn, language |-> l, topics |-> ts, description |-> d ] :
        fn \in MapNamePool, l \in MapLanguagePool, ts \in MapTopicsPool,
        d \in MapDescriptionPool }

InitMap ==
    /\ mapRepo \in MapRepoPool
    /\ mapped = << >>
    /\ pcMap = "input"
    /\ NotMapIdle

MapRepo ==
    /\ pcMap = "input"
    /\ mapped' = mapRepoToPersonas(mapRepo)
    /\ pcMap' = "done"
    /\ UNCHANGED << mapRepo, notMapVars >>

NextMap == MapRepo

SpecMap == InitMap /\ [][NextMap]_vars

\* The position of a domain in the catalog
CatalogIndex(d) == CHOOSE i \in 1..Len(DOMAIN_SIGNALS) : DOMAIN_SIGNALS[i].domain = d

\* The per-repo score of computeDomainScores for the mapped repository
ScorerScore(d) == RepoScore(mapRepo, DOMAIN_SIGNALS[CatalogIndex(d)])

\* The same without the name keywords: language, topics and description
ThreeSignalScore(d) ==
    LET sg == DOMAIN_SIGNALS[CatalogIndex(d)]
    IN  (IF LanguageMatches(mapRepo, sg) THEN 4 ELSE 0)
        + 6 * Cardinality(MatchingTopics(mapRepo, sg))
        + 3 * Cardinality(DescriptionKeywords(mapRepo, sg))

\* C20 as stated: mapRepoToPersonas returns exactly the categories whose
\* Repo Scorer score for the repo (language + topics + description keywords
\* + name keywords, the per-repo score of domain scoring) is at least 2,
\* ordered by that score descending.
MappedByRepoScorer ==
    pcMap = "done" =>
        /\ \A i \in 1..Len(DOMAIN_SIGNALS) :
            (ScorerScore(DOMAIN_SIGNALS[i].domain) >= 4)
            <=> (\E k \in 1..Len(mapped) : mapped[k] = DOMAIN_SIGNALS[i].domain)
        /\ \A k, l \in 1..Len(mapped) :
            k < l => ScorerScore(mapped[k]) >= ScorerScore(mapped[l])

\* C20 as amended: mapRepoToPersonas returns exactly the categories whose
\* score from language, topics and description keywords (the Repo Scorer
\* without its name-keyword signal) is at least 2, each once, ordered by
\* that score descending, equal scores in catalog order.
MappedByThreeSignals ==
    pcMap = "done" =>
        /\ \A i \in 1..Len(DOMAIN_SIGNALS) :
            (ThreeSignalScore(DOMAIN_SIGNALS[i].domain) >= 4)
            <=> (\E k \in 1..Len(mapped) : mapped[k] = DOMAIN_SIGNALS[i].domain)
        /\ \A k, l \in 1..Len(mapped) :
            k < l =>
                /\ mapped[k] # mapped[l]
                /\ ThreeSignalScore(mapped[k]) >= ThreeSignalScore(mapped[l])
                /\ ThreeSignalScore(mapped[k]) = ThreeSignalScore(mapped[l])
                    => CatalogIndex(mapped[k]) < CatalogIndex(mapped[l])

\* A repository was mapped to two categories against catalog order, while
\* a third category scored but stayed under 2, and the repository's name
\* holds a keyword.
MappedAgainstCatalogOrder ==
    /\ pcMap = "done"
    /\ Len(mapped) = 2
    /\ CatalogIndex(mapped[1]) > CatalogIndex(mapped[2])
    /\ \E i \in 1..Len(DOMAIN_SIGNALS) :
        /\ ThreeSignalScore(DOMAIN_SIGNALS[i].domain) \in 1..3
    /\ \E i \in 1..Len(DOMAIN_SIGNALS) :
        NameKeywords(mapRepo, DOMAIN_SIGNALS[i]) # { }

---------------------------------------------------------------------------
(* POST /api/:username/refresh, handled by concurrent requests             *)

\* Requests one slot receives, one after the other
MaxRequests == 2

\* The request slots: requests of different slots overlap
Requests == 1..2

\* params.username of the requests: two spellings of one name, another
\* name, and a name the route refuses
RawUsernames ==
    { << "O","c","t","o","c","a","t" >>, << "o","c","t","o","c","a","t" >>,
      << "h","u","b","o","t" >>, << "-","x" >> }

\* The instants Date.now() shows during the run, in milliseconds
ClockPoints == { 0, 3599999, 3600000 }

ONE_HOUR_SECONDS == 3600

AlnumChars ==
    { LowerChars[i] : i \in 1..Len(LowerChars) } \cup { UpperChars[i] : i \in 1..Len(UpperChars) }
        \cup { "0","1","2","3","4","5","6","7","8","9" }

\* USERNAME_RE.test(username) && !username.includes('--')
isValidUsername(username) ==
    /\ Len(username) \in 1..39
    /\ username[1] \in AlnumChars
    /\ username[Len(username)] \in AlnumChars
    /\ \A i \in 1..Len(username) : username[i] \in AlnumChars \cup { "-" }
    /\ ~ includes(username, << "-","-" >>)

\* kv.get(key): the value put, until its expirationTtl has passed
kvGet(kv, key, nowMs) ==
    IF key \in DOMAIN kv /\ nowMs < kv[key].expiresAt THEN kv[key] ELSE [ value |-> -1, expiresAt |-> 0 ]

\* checkRateLimit: not allowed, for what kv.get returned
rateLimited(existing, nowMs) ==
    /\ existing.value >= 0
    /\ (nowMs - existing.value) \div 1000 < ONE_HOUR_SECONDS

InitRefresh ==
    /\ kvRateLimit = << >>
    /\ clockMs = 0
    /\ reqPc = [p \in Requests |-> "idle"]
    /\ reqUser = [p \in Requests |-> << >>]
    /\ reqResp = [p \in Requests |-> 0]
    /\ reqCount = [p \in Requests |-> 0]
    /\ accepted = << >>
    /\ profileQueue = << >>
    /\ NotRefreshIdle

\* The route is entered: the username is lower-cased and validated
Receive(p) ==
    /\ reqPc[p] \in { "idle", "done" }
    /\ reqCount[p] < MaxRequests
    /\ \E raw \in RawUsernames :
        LET username == toLowerCase(raw)
        IN  /\ reqUser' = [reqUser EXCEPT ![p] = username]
            /\ IF isValidUsername(username)
               THEN reqPc' = [reqPc EXCEPT ![p] = "check"] /\ reqResp' = [reqResp EXCEPT ![p] = 0]
               ELSE reqPc' = [reqPc EXCEPT ![p] = "done"] /\ reqResp' = [reqResp EXCEPT ![p] = 400]
    /\ reqCount' = [reqCount EXCEPT ![p] = @ + 1]
    /\ UNCHANGED << kvRateLimit, clockMs, accepted, profileQueue, notRefreshVars >>

\* await checkRateLimit(env.KV, username), and the 429 it leads to
CheckRateLimit(p) ==
    /\ reqPc[p] = "check"
    /\ IF rateLimited(kvGet(kvRateLimit, reqUser[p], clockMs), clockMs)
       THEN reqPc' = [reqPc EXCEPT ![p] = "done"] /\ reqResp' = [reqResp EXCEPT ![p] = 429]
       ELSE reqPc' = [reqPc EXCEPT ![p] = "consume"] /\ UNCHANGED reqResp
    /\ UNCHANGED << kvRateLimit, clockMs, reqUser, reqCount, accepted, profileQueue, notRefreshVars >>

\* await consumeRateLimit(env.KV, username)
ConsumeRateLimit(p) ==
    /\ reqPc[p] = "consume"
    /\ kvRateLimit' =
           [k \in DOMAIN kvRateLimit \cup { reqUser[p] } |->
               IF k = reqUser[p]
               THEN [ value |-> clockMs, expiresAt |-> clockMs + ONE_HOUR_SECONDS * 1000 ]
               ELSE kvRateLimit[k]]
    /\ accepted' = Append(accepted, [ username |-> reqUser[p], at |-> clockMs, by |-> p ])
    /\ reqPc' = [reqPc EXCEPT ![p] = "send"]
    /\ UNCHANGED << clockMs, reqUser, reqResp, reqCount, profileQueue, notRefreshVars >>

\* await env.PROFILE_QUEUE.send(...), and the 202
Enqueue(p) ==
    /\ reqPc[p] = "send"
    /\ profileQueue' = Append(profileQueue, [ username |-> reqUser[p], requestedAt |-> clockMs ])
    /\ reqPc' = [reqPc EXCEPT ![p] = "done"]
    /\ reqResp' = [reqResp EXCEPT ![p] = 202]
    /\ UNCHANGED << kvRateLimit, clockMs, reqUser, reqCount, accepted, notRefreshVars >>

\* Time passes
TickMs ==
    /\ \E t \in ClockPoints : t > clockMs /\ clockMs' = t
    /\ UNCHANGED << kvRateLimit, reqPc, reqUser, reqResp, reqCount, accepted, profileQueue, notRefreshVars >>

NextRefresh ==
    \/ \E p \in Requests : Receive(p) \/ CheckRateLimit(p) \/ ConsumeRateLimit(p) \/ Enqueue(p)
    \/ TickMs

SpecRefresh == InitRefresh /\ [][NextRefresh]_vars

\* C21 as stated: of the refresh requests accepted for one username, no
\* two fall within one hour of each other, however the requests overlap.
OneRefreshPerHour ==
    \A i, j \in 1..Len(accepted) :
        (i < j /\ accepted[i].username = accepted[j].username) =>
            accepted[j].at - accepted[i].at >= ONE_HOUR_SECONDS * 1000

---------------------------------------------------------------------------
(* GET /api/:username/personas while processUsername runs                  *)

\* processUsername calls made for the username
MaxRuns == 2

\* The username polled and processed
PollUsername == << "o","c","t","o","c","a","t" >>

PollProfile == [ login |-> "octocat", created_at |-> [ valid |-> TRUE, year |-> 2015 ] ]

\* personaRows of processUsername: one row per computed persona
personaRowsOf(computed) ==
    [k \in 1..Len(computed.personas) |->
        [ username   |-> PollUsername,
          persona_id |-> computed.personas[k].persona_id,
          sort_order |-> computed.personas[k].sort_order ]]

\* SELECT * FROM personas WHERE username = ?
selectPersonas(table, username) == SelectSeq(table, LAMBDA row : row.username = username)

InitPoll ==
    /\ dbProfiles = { }
    /\ dbPersonas = << >>
    /\ procPc = "idle"
    /\ procRows = << >>
    /\ procRuns = 0
    /\ getPc = "idle"
    /\ getResp = 0
    /\ getAfter = FALSE
    /\ NotPollIdle

\* processUsername, steps 1 to 6: the GitHub data is fetched and the engine
\* run
Compute ==
    /\ procPc = "idle"
    /\ procRuns < MaxRuns
    /\ \E owned \in ListsOf(OwnedPool), stars \in ListsOf(StarPool) :
        procRows' = personaRowsOf(computeFullProfile(PollProfile, owned, stars, 2024))
    /\ procPc' = "computed"
    /\ UNCHANGED << dbProfiles, dbPersonas, procRuns, getPc, getResp, getAfter, notPollVars >>

\* await upsertProfile(env.DB, profileRow)
UpsertProfile ==
    /\ procPc = "computed"
    /\ dbProfiles' = dbProfiles \cup { PollUsername }
    /\ procPc' = "profile"
    /\ UNCHANGED << dbPersonas, procRows, procRuns, getPc, getResp, getAfter, notPollVars >>

\* upsertPersonas: DELETE FROM personas WHERE username = ?
DeletePersonas ==
    /\ procPc = "profile"
    /\ dbPersonas' = SelectSeq(dbPersonas, LAMBDA row : row.username # PollUsername)
    /\ procPc' = "insert"
    /\ UNCHANGED << dbProfiles, procRows, procRuns, getPc, getResp, getAfter, notPollVars >>

\* upsertPersonas: one INSERT INTO personas
InsertPersona ==
    /\ procPc = "insert"
    /\ procRows # << >>
    /\ dbPersonas' = Append(dbPersonas, Head(procRows))
    /\ procRows' = Tail(procRows)
    /\ UNCHANGED << dbProfiles, procPc, procRuns, getPc, getResp, getAfter, notPollVars >>

\* The writes are done and processUsername returns
Complete ==
    /\ procPc = "insert"
    /\ procRows = << >>
    /\ procPc' = "idle"
    /\ procRuns' = procRuns + 1
    /\ UNCHANGED << dbProfiles, dbPersonas, procRows, getPc, getResp, getAfter, notPollVars >>

\* GET: the personas of the username are selected, and returned when there
\* are some
GetPersonas ==
    /\ getPc = "idle"
    /\ getAfter' = (procRuns > 0)
    /\ IF Len(selectPersonas(dbPersonas, PollUsername)) > 0
       THEN getResp' = 200 /\ UNCHANGED getPc
       ELSE getResp' = 0 /\ getPc' = "profile"
    /\ UNCHANGED << dbProfiles, dbPersonas, procPc, procRows, procRuns, notPollVars >>

\* GET: no personas, so the profile decides between 404 and 202
GetProfile ==
    /\ getPc = "profile"
    /\ getResp' = IF PollUsername \in dbProfiles THEN 202 ELSE 404
    /\ getPc' = "idle"
    /\ UNCHANGED << dbProfiles, dbPersonas, procPc, procRows, procRuns, getAfter, notPollVars >>

NextPoll ==
    \/ Compute \/ UpsertProfile \/ DeletePersonas \/ InsertPersona \/ Complete
    \/ GetPersonas \/ GetProfile

SpecPoll == InitPoll /\ [][NextPoll]_vars

\* C22 as stated: a GET /api/:username/personas that begins after
\* processUsername has completed for the username, its results stored, is
\* never answered 202.
ComputedMeansNoMore202 ==
    (getPc = "idle" /\ getResp = 202) => ~ getAfter

---------------------------------------------------------------------------
(* generateStats applied to a list of stat labels and a score              *)

\* A variant with the offsets in ascending order
offsets_ascending == << -8, -5, 3, 5 >>

\* const offsets = [-5, 3, -8, 5]
offsets == << -5, 3, -8, 5 >>

\* Math.round(x) for x = halves / 2: the nearest integer, a half rounding up
roundHalves(halves) == (halves + 1) \div 2

\* Math.max(30, Math.min(100, Math.round(normalizedScore + offset))), with
\* normalizedScore in half points and i the 0-based index of the label
statValue(score2, i) ==
    LET offset  == offsets[(i % Len(offsets)) + 1]
        rounded == roundHalves(score2 + 2 * offset)
        capped  == IF rounded < 100 THEN rounded ELSE 100
    IN  IF capped > 30 THEN capped ELSE 30

generateStats(labels, score2) ==
    [k \in 1..Len(labels) |-> [ label |-> labels[k], value |-> statValue(score2, k - 1) ]]

\* Largest normalizedScore drawn, in half points
MaxStatScore == 212

\* statLabels: none, the four labels of a template, and a longer list
StatLabelPool ==
    { << >>,
      << "Architecture", "Debugging", "Scale", "Uptime" >>,
      << "Grit", "Nostalgia", "Root Access", "Lore", "Patience", "Dad Jokes" >> }

InitStats ==
    /\ statLabels \in StatLabelPool
    /\ statScore \in 0..MaxStatScore
    /\ stats = << >>
    /\ pcStats = "input"
    /\ NotStatsIdle

GenerateStats ==
    /\ pcStats = "input"
    /\ stats' = generateStats(statLabels, statScore)
    /\ pcStats' = "done"
    /\ UNCHANGED << statLabels, statScore, notStatsVars >>

NextStats == GenerateStats

SpecStats == InitStats /\ [][NextStats]_vars

\* C23: there is one bar per stat label, in label order; every bar is an
\* integer in 30..100; and the bar at index i is the integer nearest to
\* normalizedScore + [-5, 3, -8, 5][i mod 4] (a half rounding up), raised
\* to 30 when it is below and lowered to 100 when it is above.
StatBarsClamped ==
    pcStats = "done" =>
        /\ Len(stats) = Len(statLabels)
        /\ \A k \in 1..Len(stats) :
            LET i  == k - 1
                m  == i - 4 * (i \div 4)
                by == IF m = 0 THEN -5 ELSE IF m = 1 THEN 3 ELSE IF m = 2 THEN -8 ELSE 5
                x2 == statScore + 2 * by
            IN  /\ stats[k].label = statLabels[k]
                /\ stats[k].value \in 30..100
                /\ \E n \in -10..(MaxStatScore + 10) :
                    /\ x2 \in { 2 * n - 1, 2 * n }
                    /\ stats[k].value = (IF n < 30 THEN 30 ELSE IF n > 100 THEN 100 ELSE n)

\* Six bars for a score of 96.5: the second and sixth are cut to 100, the
\* fifth repeats the first, and the first is 96.5 - 5 rounded up to 92.
StatsWrappedAndClamped ==
    /\ pcStats = "done"
    /\ Len(stats) = 6
    /\ statScore = 193
    /\ stats[1].value = 92 /\ stats[5].value = 92
    /\ stats[2].value = 100 /\ stats[6].value = 100
    /\ stats[3].value = 89 /\ stats[4].value = 100

---------------------------------------------------------------------------
(* findRelevantStars applied to a persona id and a starred list            *)

\* The score findRelevantStars gives a starred repo, in half points:
\* language, topics and description keywords
StarScore(r, signals) ==
    LET lang   == toLowerCase(orEmpty(r.language))
        topics == lowerAll(r.topics)
        desc   == toLowerCase(orEmpty(r.description))
        langScore ==
            IF \E i \in 1..Len(signals.languages) :
                   toLowerCase(signals.languages[i]) = lang
            THEN 4 ELSE 0
        topicHits ==
            Len(SelectSeq(topics, LAMBDA t :
                \E i \in 1..Len(signals.topics) :
                    \/ includes(t, signals.topics[i])
                    \/ includes(signals.topics[i], t)))
        descHits ==
            Len(SelectSeq(signals.descriptionKeywords, LAMBDA kw : includes(desc, kw)))
    IN  langScore + topicHits * 6 + descHits * 3

\* repo.full_name.split("/")[1] || repo.full_name
shortName(fullName) ==
    IF secondSegment(fullName) \in { Undefined, << >> } THEN fullName ELSE secondSegment(fullName)

\* The scored entries pushed for the stars, in the order of the stars
RECURSIVE scoredStars(_, _)
scoredStars(stars, signals) ==
    IF stars = << >> THEN << >>
    ELSE LET score == StarScore(Head(stars), signals)
         IN  (IF score >= 4
              THEN << [ domain |-> shortName(Head(stars).full_name), score |-> score ] >>
              ELSE << >>) \o scoredStars(Tail(stars), signals)

findRelevantStars(personaId, stars, maxCount) ==
    IF \A i \in 1..Len(DOMAIN_SIGNALS) : DOMAIN_SIGNALS[i].domain # personaId
    THEN << >>
    ELSE LET signals == DOMAIN_SIGNALS[CHOOSE i \in 1..Len(DOMAIN_SIGNALS) : DOMAIN_SIGNALS[i].domain = personaId]
             sorted  == sortByScoreDesc(scoredStars(stars, signals))
             kept    == IF Len(sorted) < maxCount THEN Len(sorted) ELSE maxCount
         IN  [k \in 1..kept |-> sorted[k].domain]

\* Longest starred list drawn
MaxRelevant == 3

RelevantStarPool ==
    { [ full_name |-> << "a","c","m","e","/","k","e","r","n","e","l" >>, language |-> Null,
        topics |-> << >>, description |-> << "a"," ","k","e","r","n","e","l" >> ],
      [ full_name |-> << "k","e","r","n","e","l","-","l","a","b","s","/","f","o","o" >>, language |-> << "R","u","s","t" >>,
        topics |-> << << "k","e","r","n","e","l" >> >>, description |-> << "K","e","r","n","e","l"," ","d","a","t","a","b","a","s","e"," ","A","P","I" >> ],
      [ full_name |-> << "a","c","m","e","/","h","e","l","m","-","c","h","a","r","t","s" >>, language |-> << "H","C","L" >>,
        topics |-> << << "D","o","c","k","e","r" >> >>, description |-> Null ],
      [ full_name |-> << "a","c","m","e","/","f","o","o" >>, language |-> Null,
        topics |-> << >>, description |-> Null ] }

RelevantPersonaPool == { "systems", "platform", "astronaut" }

InitStars ==
    /\ relPersona \in RelevantPersonaPool
    /\ relStars \in UNION { [1..n -> RelevantStarPool] : n \in 0..MaxRelevant }
    /\ relevant = << >>
    /\ pcRel = "input"
    /\ NotStarsIdle

\* findRelevantStars(ap.persona_id, stars), as generatePersonaDetails calls it
FindRelevant ==
    /\ pcRel = "input"
    /\ relevant' = findRelevantStars(relPersona, relStars, 8)
    /\ pcRel' = "done"
    /\ UNCHANGED << relPersona, relStars, notStarsVars >>

NextStars == FindRelevant

SpecStars == InitStars /\ [][NextStars]_vars

\* The per-repo score of the Repo Scorer for a star and a persona id
ScorerScoreOf(personaId, r) ==
    IF \A i \in 1..Len(DOMAIN_SIGNALS) : DOMAIN_SIGNALS[i].domain # personaId THEN 0
    ELSE RepoScore(r, DOMAIN_SIGNALS[CHOOSE i \in 1..Len(DOMAIN_SIGNALS) : DOMAIN_SIGNALS[i].domain = personaId])

\* C24 as stated: the list has at most 8 names; it names distinct starred
\* repos whose Repo Scorer score (name keywords included) is >= 2, in
\* descending order of that score; no starred repo left out scores higher
\* than a listed one; and, short of 8 names, no starred repo scoring >= 2
\* is left out.
RelevantStarsByRepoScorer ==
    pcRel = "done" =>
        /\ Len(relevant) <= 8
        /\ \E f \in [1..Len(relevant) -> 1..Len(relStars)] :
            /\ \A j, k \in 1..Len(relevant) : j # k => f[j] # f[k]
            /\ \A k \in 1..Len(relevant) :
                /\ relevant[k] = shortName(relStars[f[k]].full_name)
                /\ ScorerScoreOf(relPersona, relStars[f[k]]) >= 4
            /\ \A j, k \in 1..Len(relevant) :
                j < k => ScorerScoreOf(relPersona, relStars[f[j]]) >= ScorerScoreOf(relPersona, relStars[f[k]])
            /\ \A i \in 1..Len(relStars) :
                (\A k \in 1..Len(relevant) : f[k] # i) =>
                    /\ \A k \in 1..Len(relevant) :
                        ScorerScoreOf(relPersona, relStars[i]) <= ScorerScoreOf(relPersona, relStars[f[k]])
                    /\ Len(relevant) < 8 => ScorerScoreOf(relPersona, relStars[i]) < 4

---------------------------------------------------------------------------
(* fetchAllStars: the page loop and the stored metadata                    *)

\* config.githubPerPage
PerPage == 2

\* config.maxStarPages
MaxStarPages == 3

\* The statuses GitHub answers a page request with
PageStatuses == { 200, 403, 404, 500 }

\* The repos GitHub returns for a page of a starred list of the given size
remotePage(total, page, perPage) ==
    LET before == (page - 1) * perPage
    IN  IF total <= before THEN 0
        ELSE IF total - before < perPage THEN total - before ELSE perPage

\* A variant that calls the metadata complete only below the last page
metaComplete_strict(page, maxPages) == page < maxPages

\* complete: page <= maxPages
metaComplete(page, maxPages) == page <= maxPages

InitFetch ==
    /\ starCache \in [1..MaxStarPages -> 0..PerPage]
    /\ remoteStars \in 0..((MaxStarPages + 1) * PerPage)
    /\ fetchPage = 1
    /\ fetchedPages = 0
    /\ starsFetched = 0
    /\ pagesRead = 0
    /\ stopReason = ""
    /\ starsMeta = << >>
    /\ pcFetch = "loop"
    /\ NotFetchIdle

\* The rest of an iteration once the page's data is there: the page is
\* counted and pushed, and the loop goes on only after a full page
PushPage(len) ==
    /\ fetchedPages' = fetchedPages + 1
    /\ starsFetched' = starsFetched + len
    /\ IF len < PerPage
       THEN /\ pcFetch' = "meta" /\ stopReason' = "short" /\ UNCHANGED fetchPage
       ELSE /\ fetchPage' = fetchPage + 1
            /\ IF fetchPage + 1 <= MaxStarPages
               THEN pcFetch' = "loop" /\ UNCHANGED stopReason
               ELSE pcFetch' = "meta" /\ stopReason' = "cap"

\* One iteration that finds the page in the cache
ReadCachedPage ==
    /\ pcFetch = "loop"
    /\ fetchPage <= MaxStarPages
    /\ starCache[fetchPage] > 0
    /\ pagesRead' = pagesRead + 1
    /\ PushPage(starCache[fetchPage])
    /\ UNCHANGED << starCache, remoteStars, starsMeta, notFetchVars >>

\* One iteration that asks GitHub for the page
FetchPage ==
    /\ pcFetch = "loop"
    /\ fetchPage <= MaxStarPages
    /\ starCache[fetchPage] = 0
    /\ pagesRead' = pagesRead + 1
    /\ \E status \in PageStatuses :
        LET len == remotePage(remoteStars, fetchPage, PerPage)
        IN  IF status = 404
            THEN /\ pcFetch' = "meta" /\ stopReason' = "404"
                 /\ UNCHANGED << starCache, fetchPage, fetchedPages, starsFetched >>
            ELSE IF status # 200
            THEN /\ pcFetch' = "thrown"
                 /\ UNCHANGED << starCache, fetchPage, fetchedPages, starsFetched, stopReason >>
            ELSE IF len = 0
            THEN /\ pcFetch' = "meta" /\ stopReason' = "empty"
                 /\ UNCHANGED << starCache, fetchPage, fetchedPages, starsFetched >>
            ELSE /\ starCache' = [starCache EXCEPT ![fetchPage] = len]
                 /\ PushPage(len)
    /\ UNCHANGED << remoteStars, starsMeta, notFetchVars >>

\* The metadata is stored and the stars are returned
StoreMeta ==
    /\ pcFetch = "meta"
    /\ starsMeta' = << [ totalPages |-> fetchedPages,
                         complete   |-> metaComplete(fetchPage, MaxStarPages) ] >>
    /\ pcFetch' = "done"
    /\ UNCHANGED << starCache, remoteStars, fetchPage, fetchedPages, starsFetched, pagesRead, stopReason, notFetchVars >>

NextFetch == ReadCachedPage \/ FetchPage \/ StoreMeta

\* The call is scheduled until it returns or throws
SpecFetch == InitFetch /\ [][NextFetch]_vars /\ WF_vars(NextFetch)

---------------------------------------------------------------------------
(* handleQueueBatch and processUsername with failing steps                 *)

\* Longest batch drawn
MaxBatch == 2

\* A variant in which a failed D1 write is thrown on
afterD1Failure_thrown == "threw"

\* Where processUsername goes on after the D1 write failed or was skipped:
\* the catch only warns
afterD1Failure == "og"

\* A variant that leaves the loop at the first failure
afterRetry_abort(i, n) == n + 1

\* The message the loop goes to after retry()
afterRetry(i, n) == i + 1

InitQueue ==
    /\ batchSize \in 1..MaxBatch
    /\ msgIndex = 1
    /\ pcProc = "fetch"
    /\ failures = [i \in 1..batchSize |-> { }]
    /\ msgCalls = [i \in 1..batchSize |-> << >>]
    /\ settleOrder = << >>
    /\ NotQueueIdle

Failed(step) == failures' = [failures EXCEPT ![msgIndex] = @ \cup { step }]

\* Step 1: the profile, the repos and the stars are fetched from GitHub
FetchGithub ==
    /\ pcProc = "fetch"
    /\ \/ pcProc' = "store" /\ UNCHANGED failures
       \/ pcProc' = "threw" /\ Failed("fetch")
    /\ UNCHANGED << batchSize, msgIndex, msgCalls, settleOrder, notQueueVars >>

\* Steps 1b to 2b: legacy keys cleaned up, repos filtered, repos and READMEs
\* stored in R2; the failures are caught
StoreRepos ==
    /\ pcProc = "store"
    /\ \/ UNCHANGED failures
       \/ Failed("r2")
    /\ pcProc' = "engine"
    /\ UNCHANGED << batchSize, msgIndex, msgCalls, settleOrder, notQueueVars >>

\* Steps 3 to 6: the engine runs and the rows are built
RunEngine ==
    /\ pcProc = "engine"
    /\ \/ pcProc' = "d1" /\ UNCHANGED failures
       \/ pcProc' = "threw" /\ Failed("engine")
    /\ UNCHANGED << batchSize, msgIndex, msgCalls, settleOrder, notQueueVars >>

\* Step 7: the rows are written to D1, when there is a DB binding
WriteD1 ==
    /\ pcProc = "d1"
    /\ \/ pcProc' = "og" /\ UNCHANGED failures
       \/ pcProc' = afterD1Failure /\ Failed("d1")
       \/ pcProc' = afterD1Failure /\ Failed("no DB")
    /\ UNCHANGED << batchSize, msgIndex, msgCalls, settleOrder, notQueueVars >>

\* Step 8: the OG image is generated; a failure is caught
GenerateOG ==
    /\ pcProc = "og"
    /\ \/ UNCHANGED failures
       \/ Failed("og")
    /\ pcProc' = "index"
    /\ UNCHANGED << batchSize, msgIndex, msgCalls, settleOrder, notQueueVars >>

\* Step 9: the repos are indexed into Vectorize; a failure is caught, and
\* processUsername returns
IndexRepos ==
    /\ pcProc = "index"
    /\ \/ UNCHANGED failures
       \/ Failed("vectorize")
    /\ pcProc' = "returned"
    /\ UNCHANGED << batchSize, msgIndex, msgCalls, settleOrder, notQueueVars >>

\* The loop moves to message i, or ends
GoTo(i) ==
    /\ msgIndex' = i
    /\ pcProc' = IF i <= batchSize THEN "fetch" ELSE "end"

\* processUsername returned: msg.ack()
Ack ==
    /\ pcProc = "returned"
    /\ msgCalls' = [msgCalls EXCEPT ![msgIndex] = Append(@, "ack")]
    /\ settleOrder' = Append(settleOrder, msgIndex)
    /\ GoTo(msgIndex + 1)
    /\ UNCHANGED << batchSize, failures, notQueueVars >>

\* processUsername threw: the catch calls msg.retry()
Retry ==
    /\ pcProc = "threw"
    /\ msgCalls' = [msgCalls EXCEPT ![msgIndex] = Append(@, "retry")]
    /\ settleOrder' = Append(settleOrder, msgIndex)
    /\ GoTo(afterRetry(msgIndex, batchSize))
    /\ UNCHANGED << batchSize, failures, notQueueVars >>

NextQueue ==
    \/ FetchGithub \/ StoreRepos \/ RunEngine \/ WriteD1 \/ GenerateOG \/ IndexRepos
    \/ Ack \/ Retry

\* The handler is scheduled until the batch is through
SpecQueue == InitQueue /\ [][NextQueue]_vars /\ WF_vars(NextQueue)

\* The steps whose failure processUsername throws on
FatalSteps == { "fetch", "engine" }

\* C26: a message whose D1 write failed or was skipped for want of a DB
\* binding, or whose OG image failed, is acked all the same, unless the
\* GitHub fetch or the engine failed; and a message is retried only when
\* the GitHub fetch or the engine failed.
PersistenceIsNonFatal ==
    \A i \in 1..batchSize :
        /\ (i < msgIndex /\ failures[i] \cap FatalSteps = { }) => msgCalls[i] = << "ack" >>
        /\ (Len(msgCalls[i]) > 0 /\ msgCalls[i][1] = "retry") => failures[i] \cap FatalSteps # { }

\* A message was acked after its D1 write and its OG image had both failed.
AckedAfterFailedWrites ==
    \E i \in 1..batchSize :
        /\ msgCalls[i] = << "ack" >>
        /\ { "d1", "og" } \subseteq failures[i]

\* C27: no message gets more than one call; a message the loop has passed
\* got exactly one, ack() when processUsername returned and retry() when
\* it threw; the messages are settled in batch order; and the loop reaches
\* the end of the batch whatever failed on the way.
EveryMessageSettledOnce ==
    /\ [](\A i \in 1..batchSize :
            /\ Len(msgCalls[i]) <= 1
            /\ i < msgIndex => Len(msgCalls[i]) = 1
            /\ i > msgIndex => Len(msgCalls[i]) = 0)
    /\ [][pcProc = "returned" => msgCalls'[msgIndex] = << "ack" >>]_vars
    /\ [][pcProc = "threw" => msgCalls'[msgIndex] = << "retry" >>]_vars
    /\ [](settleOrder = [k \in 1..Len(settleOrder) |-> k])
    /\ <>(pcProc = "end" /\ Len(settleOrder) = batchSize)

\* The batch is through with its first message retried and its second one
\* acked.
RetriedThenAcked ==
    /\ pcProc = "end"
    /\ batchSize >= 2
    /\ msgCalls[1] = << "retry" >>
    /\ msgCalls[2] = << "ack" >>

---------------------------------------------------------------------------
(* githubFetch called concurrently, with a token GitHub may refuse         *)

\* githubFetch calls started during the run
MaxCalls == 4

\* The calls in flight at once (processUsername awaits three fetches
\* together)
Calls == 1..3

\* The statuses GitHub answers a request with
FetchStatuses == { 200, 401, 403, 404 }

\* A variant that sends the token whatever tokenInvalid says
authorized_always(token, invalid) == token

\* githubHeaders: if (token && !tokenInvalid) headers.Authorization = ...
authorized(token, invalid) == token /\ ~ invalid

InitToken ==
    /\ tokenInvalid = FALSE
    /\ githubToken \in BOOLEAN
    /\ callPc = [c \in Calls |-> "idle"]
    /\ callAuth = [c \in Calls |-> FALSE]
    /\ callRequests = [c \in Calls |-> 0]
    /\ callsMade = 0
    /\ got401 = FALSE
    /\ authAfter401 = FALSE
    /\ NotTokenIdle

\* githubFetch is entered: the headers are built and the request is sent
StartFetch(c) ==
    /\ callPc[c] = "idle"
    /\ callsMade < MaxCalls
    /\ callsMade' = callsMade + 1
    /\ callPc' = [callPc EXCEPT ![c] = "first"]
    /\ callAuth' = [callAuth EXCEPT ![c] = authorized(githubToken, tokenInvalid)]
    /\ callRequests' = [callRequests EXCEPT ![c] = 1]
    /\ authAfter401' = (authAfter401 \/ (got401 /\ authorized(githubToken, tokenInvalid)))
    /\ UNCHANGED << tokenInvalid, githubToken, got401, notTokenVars >>

\* The response to the first request arrives: on 401 with a token not yet
\* marked, the token is marked and the request repeated without it
FirstResponse(c) ==
    /\ callPc[c] = "first"
    /\ \E status \in FetchStatuses :
        /\ got401' = (got401 \/ (status = 401 /\ callAuth[c]))
        /\ IF status = 401 /\ githubToken /\ ~ tokenInvalid
           THEN /\ tokenInvalid' = TRUE
                /\ callPc' = [callPc EXCEPT ![c] = "retry"]
                /\ callAuth' = [callAuth EXCEPT ![c] = authorized(FALSE, TRUE)]
                /\ callRequests' = [callRequests EXCEPT ![c] = @ + 1]
                /\ authAfter401' = (authAfter401 \/ authorized(FALSE, TRUE))
           ELSE /\ callPc' = [callPc EXCEPT ![c] = "idle"]
                /\ callAuth' = [callAuth EXCEPT ![c] = FALSE]
                /\ UNCHANGED << tokenInvalid, callRequests, authAfter401 >>
    /\ UNCHANGED << githubToken, callsMade, notTokenVars >>

\* The response to the repeated request arrives and is returned as it is
RetryResponse(c) ==
    /\ callPc[c] = "retry"
    /\ callPc' = [callPc EXCEPT ![c] = "idle"]
    /\ callAuth' = [callAuth EXCEPT ![c] = FALSE]
    /\ UNCHANGED << tokenInvalid, githubToken, callRequests, callsMade, got401, authAfter401, notTokenVars >>

NextToken == \E c \in Calls : StartFetch(c) \/ FirstResponse(c) \/ RetryResponse(c)

SpecToken == InitToken /\ [][NextToken]_vars

\* C28: once a call has received 401 for a request that carried the
\* token, tokenInvalid is true and stays true, no request issued from then
\* on carries an Authorization header, and no call issues more than two
\* requests.
TokenFallbackLatch ==
    /\ [](got401 => tokenInvalid)
    /\ [][tokenInvalid => tokenInvalid']_vars
    /\ [](~ authAfter401)
    /\ [](\A c \in Calls : callRequests[c] <= 2)

\* The token was refused and marked while another call's request with the
\* token was in flight, and a call started since went out without it.
LatchedWithRequestInFlight ==
    /\ tokenInvalid /\ got401 /\ githubToken
    /\ \E c, d, e \in Calls :
        /\ callPc[c] = "retry" /\ callRequests[c] = 2
        /\ callPc[d] = "first" /\ callAuth[d]
        /\ callPc[e] = "first" /\ ~ callAuth[e]

---------------------------------------------------------------------------
(* fetchStarsIncremental run again and again while the stars change        *)

\* Runs made for the username
MaxManifestRuns == 2

\* Longest starred list GitHub holds
MaxRemote == 3

\* Latest starred_at drawn (a timestamp is a positive number; 0 is null)
MaxTime == 3

StarRefs == { "acme/a", "acme/b", "acme/c" }

\* The starred lists GitHub can hold: distinct repos, newest first
RemoteLists ==
    { s \in UNION { [1..n -> [ full_name : StarRefs, starred_at : 1..MaxTime ]] : n \in 0..MaxRemote } :
        /\ \A i, j \in 1..Len(s) : i < j => s[i].starred_at >= s[j].starred_at
        /\ \A i, j \in 1..Len(s) : i # j => s[i].full_name # s[j].full_name }

\* The object of the username in the bucket is a sequence: empty when no
\* manifest was put, else the one manifest put last.

\* getStarManifest(env.R2, username): the manifest last put, or null (the
\* empty sequence)
getStarManifest(bucket) == bucket

\* putStarManifest(env.R2, username, manifest): the bucket afterwards
putStarManifest(bucket, manifest) == << manifest >>

\* [...new Set(refs)]: the first occurrence of every ref, in order
RECURSIVE uniqueRefs(_, _)
uniqueRefs(refs, seen) ==
    IF refs = << >> THEN seen
    ELSE uniqueRefs(Tail(refs),
                    IF \E i \in 1..Len(seen) : seen[i] = Head(refs) THEN seen
                    ELSE Append(seen, Head(refs)))

\* A variant that keeps the new refs only
mergeRefs_newOnly(newRefs, existingRefs) == uniqueRefs(newRefs, << >>)

\* allRefs = [...new Set([...newRefs, ...existingRefs])]
mergeRefs(newRefs, existingRefs) == uniqueRefs(newRefs \o existingRefs, << >>)

\* The for loop over the entries of one page; acc holds newRefs,
\* newestStarredAt and hitExisting
RECURSIVE scanEntries(_, _, _)
scanEntries(entries, lastStarredAt, acc) ==
    IF entries = << >> THEN acc
    ELSE LET entry == Head(entries)
         IN  IF lastStarredAt # 0 /\ entry.starred_at <= lastStarredAt
             THEN [acc EXCEPT !.hitExisting = TRUE]
             ELSE scanEntries(Tail(entries), lastStarredAt,
                      [acc EXCEPT !.newRefs = Append(@, entry.full_name),
                                  !.newestStarredAt =
                                      IF @ = 0 \/ entry.starred_at > @ THEN entry.starred_at ELSE @])

\* The entries GitHub returns for a page
pageOf(list, page, perPage) ==
    SubSeq(list, (page - 1) * perPage + 1,
           IF page * perPage < Len(list) THEN page * perPage ELSE Len(list))

\* The while loop over the pages
RECURSIVE scanPages(_, _, _, _)
scanPages(list, page, lastStarredAt, acc) ==
    IF page > MaxStarPages \/ acc.hitExisting THEN acc
    ELSE LET entries == pageOf(list, page, PerPage)
         IN  IF Len(entries) = 0 THEN acc
             ELSE LET after == scanEntries(entries, lastStarredAt, acc)
                  IN  IF Len(entries) < PerPage THEN after
                      ELSE scanPages(list, page + 1, lastStarredAt, after)

\* The manifest a run stores, for the manifest it read and the list GitHub
\* holds
updatedManifest(manifest, list) ==
    LET lastStarredAt == IF manifest = << >> THEN 0 ELSE manifest[1].last_starred_at
        scanned == scanPages(list, 1, lastStarredAt,
                             [ newRefs |-> << >>, newestStarredAt |-> lastStarredAt, hitExisting |-> FALSE ])
        existingRefs == IF manifest = << >> THEN << >> ELSE manifest[1].refs
        allRefs == mergeRefs(scanned.newRefs, existingRefs)
    IN  [ last_starred_at |-> scanned.newestStarredAt,
          total           |-> Len(allRefs),
          refs            |-> allRefs ]

InitManifest ==
    /\ r2Manifest = << >>
    /\ remoteList \in RemoteLists
    /\ manifestRuns = 0
    /\ NotManifestIdle

\* One run of fetchStarsIncremental with R2 available and GitHub answering
RunIncremental ==
    /\ manifestRuns < MaxManifestRuns
    /\ r2Manifest' = putStarManifest(r2Manifest, updatedManifest(getStarManifest(r2Manifest), remoteList))
    /\ manifestRuns' = manifestRuns + 1
    /\ UNCHANGED << remoteList, notManifestVars >>

\* Between two runs the user stars a repo: it becomes the newest entry
Star ==
    /\ manifestRuns < MaxManifestRuns
    /\ Len(remoteList) < MaxRemote
    /\ \E name \in StarRefs, at \in 1..MaxTime :
          /\ \A i \in 1..Len(remoteList) : remoteList[i].full_name # name
          /\ remoteList # << >> => at >= remoteList[1].starred_at
          /\ remoteList' = << [ full_name |-> name, starred_at |-> at ] >> \o remoteList
    /\ UNCHANGED << r2Manifest, manifestRuns, notManifestVars >>

\* Between two runs the user unstars a repo
Unstar ==
    /\ manifestRuns < MaxManifestRuns
    /\ \E i \in 1..Len(remoteList) :
          remoteList' = SubSeq(remoteList, 1, i - 1) \o SubSeq(remoteList, i + 1, Len(remoteList))
    /\ UNCHANGED << r2Manifest, manifestRuns, notManifestVars >>

NextManifest == RunIncremental \/ Star \/ Unstar

SpecManifest == InitManifest /\ [][NextManifest]_vars

RefSet(bucket) == IF bucket = << >> THEN { } ELSE { bucket[1].refs[i] : i \in 1..Len(bucket[1].refs) }

StarredAt(bucket) == IF bucket = << >> THEN 0 ELSE bucket[1].last_starred_at

---------------------------------------------------------------------------
(* Two upsertRadarAxes calls for one username at once                      *)

\* The calls in flight for the username
UpsertCalls == 1..2

\* The radar rows a computation can hand over (label, value, sort_order)
RadarRowPool ==
    { << >>,
      << [ label |-> "Systems", value |-> 80, sort_order |-> 0 ] >>,
      << [ label |-> "Systems", value |-> 80, sort_order |-> 0 ],
         [ label |-> "Platform", value |-> 60, sort_order |-> 1 ] >>,
      << [ label |-> "Platform", value |-> 90, sort_order |-> 0 ],
         [ label |-> "Systems", value |-> 40, sort_order |-> 1 ] >> }

InitRadar ==
    /\ radarTable \in RadarRowPool
    /\ upAxes \in [UpsertCalls -> RadarRowPool]
    /\ upPc = [c \in UpsertCalls |-> "delete"]
    /\ upIdx = [c \in UpsertCalls |-> 1]
    /\ NotRadarIdle

\* await DELETE FROM radar_axes WHERE username = ?
DeleteAxes(c) ==
    /\ upPc[c] = "delete"
    /\ radarTable' = << >>
    /\ upPc' = [upPc EXCEPT ![c] = IF upAxes[c] = << >> THEN "done" ELSE "insert"]
    /\ UNCHANGED << upAxes, upIdx, notRadarVars >>

\* await INSERT INTO radar_axes ... for the next axis of the call
InsertAxis(c) ==
    /\ upPc[c] = "insert"
    /\ radarTable' = Append(radarTable, upAxes[c][upIdx[c]])
    /\ upIdx' = [upIdx EXCEPT ![c] = @ + 1]
    /\ upPc' = [upPc EXCEPT ![c] = IF upIdx[c] = Len(upAxes[c]) THEN "done" ELSE "insert"]
    /\ UNCHANGED << upAxes, notRadarVars >>

NextRadar == \E c \in UpsertCalls : DeleteAxes(c) \/ InsertAxis(c)

SpecRadar == InitRadar /\ [][NextRadar]_vars

\* How many rows of the table equal the row
RowCount(table, row) == Cardinality({ i \in 1..Len(table) : table[i] = row })

\* The table holds the rows of the call, each as often as the call has it
HoldsRowsOf(table, axes) ==
    /\ Len(table) = Len(axes)
    /\ \A i \in 1..Len(axes) : RowCount(table, axes[i]) = RowCount(axes, axes[i])

\* C30: once both upsertRadarAxes calls for the username have completed,
\* the radar_axes table holds exactly the rows of one of the two calls.
RadarRowsOfOneCall ==
    (\A c \in UpsertCalls : upPc[c] = "done") =>
        \E c \in UpsertCalls : HoldsRowsOf(radarTable, upAxes[c])

=============================================================================
